---------------------------- MODULE Spec2Model ----------------------------
(***************************************************************************)
(* StupiDownloader: a chunked parallel file-download engine.               *)
(*                                                                         *)
(* The repository holds several entry points over the same idea:           *)
(*   libs/mod.rs          direct-write download (Downloader, Tracer)       *)
(*   libs/request/mod.rs  stage-and-merge download (temporary part files)  *)
(*   req.rs               single-stream download with pause/resume         *)
(*   request.rs           the same, with a progress channel                *)
(* The variable prog says which of them a behaviour runs; the state of the *)
(* others stays idle.  Sizes are byte counts.  File contents are kept as   *)
(* sets of extents [off, src, len]: file bytes off..off+len-1 hold source  *)
(* bytes src..src+len-1, so byte-exactness is decided without enumerating  *)
(* single bytes.                                                           *)
(***************************************************************************)
EXTENDS Integers, Sequences, FiniteSets, TLC

(***************************************************************************)
(* Program constants                                                       *)
(***************************************************************************)
KB == 1024
MB == 1048576
GB == 1073741824
\* Stands for every table threshold of 2^31 - 1 and above (5 GB, 10 GB,
\* u64::MAX): all sizes of the model are below it, so every comparison
\* against such a threshold has the outcome it has in the code.
Sat == 2147483647

\* libs/consts.rs SIZE_TABLE: (size, chunk count)
SIZE_TABLE ==
    << <<128 * KB, 1>>, <<512 * KB, 4>>, <<MB, 8>>, <<5 * MB, 32>>,
       <<10 * MB, 64>>, <<50 * MB, 256>>, <<100 * MB, 384>>,
       <<500 * MB, 512>>, <<GB, 640>>, <<Sat, 768>>, <<Sat, 869>>,
       <<Sat, 1024>> >>

\* calculate_optimal_chunks' local SIZE_TABLE: (size, chunks)
OPT_TABLE ==
    << <<MB, 1>>, <<10 * MB, 2>>, <<100 * MB, 4>>, <<GB, 8>>,
       <<Sat, 16>>, <<Sat, 32>> >>

\* buffer_unordered(12) of the direct-write download
DwLimit == 12
\* the cap of calculate_optimal_chunks
OptCap == 64
\* default capacity of tokio's BufWriter
BufCap == 8192

(***************************************************************************)
(* Bounds of the model                                                     *)
(***************************************************************************)
\* a response body arrives in at most this many buffers
MaxBufs == 2
\* the planner is applied to every total_size in 1..MaxPlanSize
MaxPlanSize == 12
\* and to every chunk count up to this one
MaxPlanChunks == 5
\* at most this many Fetch Workers of one download fail, and at most this
\* many merge tasks
MaxFaults == 1
\* CPU counts 1..MaxCpus of the hosts whose downloads are followed to their
\* end (one chunk for each CPU, and no more chunks than concurrent tasks);
\* the host with more chunks than tasks is the one of WideCpus CPUs below
MaxCpus == 2
\* req.rs: resources of 1..MaxReqSize bytes, local files of 0..MaxReqSize
MaxReqSize == 2
\* start() (libs/mod.rs) and start_download() (req.rs, request.rs) are
\* called at most this many times on one Downloader
MaxStarts == 2
\* the servers that leave GETs without a response let at most this many
\* come back
MaxAnswers == 2
\* the tasks start_download spawns, in the order of the calls
Tasks == 1..MaxStarts

\* Option: None, Some(v)
None == << >>
Some(v) == <<v>>
\* a worker's result Ok(())
Ok == [kind |-> "Ok"]
\* no result yet
Pending == [kind |-> "Pending"]
\* the call panicked
\* the panics of a task: Option::unwrap() on None
NoHandle ==
    [kind |-> "Panic", cause |-> "called Option::unwrap() on a None value"]
\* a division by 0
DivideByZero == [kind |-> "Panic", cause |-> "attempt to divide by zero"]
\* Result::unwrap() on the Err of watch::Receiver::changed
RecvError ==
    [kind |-> "Panic",
     cause |-> "called Result::unwrap() on an Err value: RecvError"]
Min(a, b) == IF a < b THEN a ELSE b
Max(a, b) == IF a > b THEN a ELSE b

(***************************************************************************)
(* Pure functions                                                          *)
(***************************************************************************)
\* Iterator::find_map over a table whose entries at the indices hits pass
\* the closure's test: the second component of the first of them in table
\* order, None when there is none.
FindMap(table, hits) ==
    IF hits = {} THEN None
    ELSE Some(table[CHOOSE k \in hits : \A j \in hits : k <= j][2])

\* libs/mod.rs Downloader::new: the chunk count for a probed size
TotalChunk(total_size, accept_ranges) ==
    IF accept_ranges
    THEN FindMap(SIZE_TABLE,
                 {k \in 1..Len(SIZE_TABLE) : SIZE_TABLE[k][1] > total_size})
    ELSE Some(1)

\* libs/mod.rs download: the inclusive range worker i puts in its header
DwStart(i, chunk_size) == i * chunk_size
DwEndUniform(i, chunk_size, total_chunk, total_size) ==
    (i + 1) * chunk_size - 1
DwEnd(i, chunk_size, total_chunk, total_size) ==
    IF i = total_chunk - 1 THEN total_size ELSE (i + 1) * chunk_size - 1

\* libs/request/mod.rs calculate_concurrent_tasks
calculate_concurrent_tasks(num_cpus) ==
    IF num_cpus \in 1..2 THEN 2
    ELSE IF num_cpus \in 3..4 THEN 4
    ELSE IF num_cpus \in 5..8 THEN 8
    ELSE Min(16, 32)

\* libs/request/mod.rs calculate_optimal_chunks; None is the panic of
\* unwrap() on a table that has no matching entry
calculate_optimal_chunks(total_size, num_cpus) ==
    LET base_chunks ==
            FindMap(OPT_TABLE,
                    {k \in 1..Len(OPT_TABLE) : total_size > OPT_TABLE[k][1]})
    IN  IF base_chunks = None THEN None
        ELSE Some(Min(Max(base_chunks[1], num_cpus), OptCap))

\* libs/request/mod.rs calculate_chunk_ranges: the ranges, indexed 1..n
\* for the code's 0..n-1
ChunkEndUniform(i, num_chunks, chunk_size, total_size) ==
    (i + 1) * chunk_size - 1
ChunkEnd(i, num_chunks, chunk_size, total_size) ==
    IF i = num_chunks - 1 THEN total_size - 1 ELSE (i + 1) * chunk_size - 1
calculate_chunk_ranges(total_size, num_chunks) ==
    LET chunk_size == total_size \div num_chunks
    IN  [k \in 1..num_chunks |->
            <<(k - 1) * chunk_size,
              ChunkEnd(k - 1, num_chunks, chunk_size, total_size)>>]

(***************************************************************************)
(* Files                                                                   *)
(***************************************************************************)
\* a file that does not exist / a new empty file
NoFile == [exists |-> FALSE, len |-> 0, ext |-> {}]
EmptyFile == [exists |-> TRUE, len |-> 0, ext |-> {}]

\* the parts of extent e that a write to file bytes lo..hi leaves in place
ClipOut(e, lo, hi) ==
    (IF e.off < lo
     THEN {[off |-> e.off, src |-> e.src,
            len |-> Min(e.off + e.len, lo) - e.off]}
     ELSE {})
    \cup
    (IF e.off + e.len - 1 > hi
     THEN LET s == Max(e.off, hi + 1)
          IN  {[off |-> s, src |-> e.src + (s - e.off),
                len |-> e.off + e.len - s]}
     ELSE {})

\* write n bytes, source bytes src.., at file offset off: the last writer of
\* a byte wins, and the file grows when the write ends past its end.  The
\* extents are kept maximal: the bytes written join the extent that ends
\* where they start and the one that starts where they end when these hold
\* the neighbouring source bytes, so that a content has one set of extents
\* however many writes made it.
WriteAt(f, off, src, n) ==
    IF n = 0 THEN f
    ELSE LET kept == UNION {ClipOut(e, off, off + n - 1) : e \in f.ext}
             left == {e \in kept : /\ e.off + e.len = off
                                   /\ e.src + e.len = src}
             right == {e \in kept : e.off = off + n /\ e.src = src + n}
             lo == IF left = {} THEN off ELSE (CHOOSE e \in left : TRUE).off
             hi == IF right = {} THEN off + n
                   ELSE LET r == CHOOSE e \in right : TRUE
                        IN  r.off + r.len
         IN  [f EXCEPT
                !.ext = (kept \ (left \cup right))
                        \cup {[off |-> lo, src |-> src - (off - lo),
                               len |-> hi - lo]},
                !.len = Max(f.len, off + n)]

\* File::set_len: the new bytes are zeros (no extent); a cut drops the rest
SetLen(f, n) ==
    [f EXCEPT !.len = n,
              !.ext = UNION {ClipOut(e, n, Max(n, f.len)) : e \in f.ext}]

\* file bytes lo..hi hold the source bytes lo..hi
RangeIdentical(f, lo, hi) ==
    \/ lo > hi
    \/ /\ \E e \in f.ext : e.off <= lo /\ lo < e.off + e.len
       /\ \A e \in f.ext :
            (e.off + e.len > lo /\ e.off <= hi) =>
                /\ e.src = e.off
                /\ e.off + e.len <= hi =>
                    \E g \in f.ext : g.off <= e.off + e.len
                                      /\ e.off + e.len < g.off + g.len

\* every byte of 0..total-1 lies in some extent
Covered(ext, total) ==
    \/ total = 0
    \/ /\ \E e \in ext : e.off = 0
       /\ \A e \in ext :
            e.off + e.len < total =>
                \E g \in ext : g.off <= e.off + e.len
                               /\ e.off + e.len < g.off + g.len

\* the file is byte-identical to a source of total bytes
Identical(f, total) ==
    /\ f.exists
    /\ f.len = total
    /\ \A e \in f.ext : e.src = e.off
    /\ Covered(f.ext, total)

\* the ways a response body of rem bytes may hand over its next buffer when
\* nb buffers were received before: all of it, or its first half
BufLens(rem, nb) ==
    {rem} \cup (IF nb + 1 < MaxBufs /\ rem >= 2 THEN {rem \div 2} ELSE {})

\* std's write_all of n bytes that fails has written some of them, any
\* number below n, before the error
Prefixes(n) == 0..n - 1

\* the body of the response to a ranged GET for start..end of a resource of
\* total bytes. A server that honours Range answers 206 with the bytes of the
\* inclusive range, clipped at the end of the resource; one that ignores it
\* answers 200 with the whole resource. Both statuses pass is_success().
\* BodySrc is the offset in the resource of the body's first byte.
BodySrc(start, honours) == IF honours THEN start ELSE 0
BodyLen(start, end, total, honours) ==
    IF ~honours THEN total
    ELSE IF start >= total \/ end < start THEN 0
    ELSE Min(end, total - 1) - start + 1

(***************************************************************************)
(* State                                                                   *)
(***************************************************************************)
VARIABLES
    prog,       \* the entry point this behaviour runs
    planIn,     \* planner: <<total_size, num_chunks>>
    planOut,    \* planner: the ranges returned, << >> before the call
    dwIn,       \* direct-write: the server and the caller
    dwPc,       \* direct-write: where the caller stands with Downloader::new
    built,      \* direct-write: what Downloader::new returned
    dl,         \* direct-write: the Downloader built by new
    tk,         \* direct-write: where each spawned download task stands
    wk,         \* direct-write: each task's Fetch Workers, by chunk index
    dwDone,     \* direct-write: each task's results in completion order
    file,       \* direct-write: the destination file
    counter,    \* direct-write: Tracer.counter
    dwResult,   \* direct-write: what each task's download returned
    smIn,       \* stage-and-merge: the probe's response and the CPU count
    smPc,       \* stage-and-merge: where download stands
    sm,         \* stage-and-merge: total_size, total_tasks, total_chunk, chunks
    sw,         \* stage-and-merge: the Fetch Workers, by chunk index
    smDone,     \* stage-and-merge: the workers' results in completion order
    temps,      \* stage-and-merge: the temporary files, by chunk index
    chan,       \* stage-and-merge: the mpsc channel's queue of chunk indices
    cons,       \* stage-and-merge: the merge consumer task
    mg,         \* stage-and-merge: the merge tasks of the JoinSet
    out,        \* stage-and-merge: the final file
    active,     \* stage-and-merge: the AtomicUsize state
    smResult,   \* stage-and-merge: what download returned
    rqIn,       \* req.rs: the resource, the local file, the server's answers
    rqPc,       \* req.rs: where each task's download_with_control stands
    state,      \* req.rs: the TaskState held by the watch channel
    receivers,  \* req.rs: the live Receivers of the watch channel
    guard,      \* req.rs: the checkpoint's borrow() holds the read lock
    caller,     \* req.rs: the thread that owns the Downloader
    rq,         \* req.rs: each task's locals and file handle
    body,       \* req.rs: each task's response body not yet received
    chunk,      \* req.rs: each task's buffer in hand
    rqFile,     \* req.rs: the output file
    rqResult,   \* req.rs: what each task's download_with_control returned
    unseen,     \* request.rs: the task's Receiver lags the channel's version
    tracer      \* request.rs: the value of the tracer channel

planVars == <<planIn, planOut>>
dwVars == <<dwIn, dwPc, built, dl, tk, wk, dwDone, file, counter, dwResult>>
smVars == <<smIn, smPc, sm, sw, smDone, temps, chan, cons, mg, out, active,
            smResult>>
rqVars == <<rqIn, rqPc, state, receivers, guard, caller, rq, body, chunk, rqFile,
            rqResult>>
ctlVars == <<unseen, tracer>>
vars == <<prog, planVars, dwVars, smVars, rqVars, ctlVars>>
notPlan == <<dwVars, smVars, rqVars, ctlVars>>
notDw == <<planVars, smVars, rqVars, ctlVars>>
notSm == <<planVars, dwVars, rqVars, ctlVars>>
notRq == <<planVars, dwVars, smVars, ctlVars>>
notCtl == <<planVars, dwVars, smVars, guard>>

PlanIdle == planIn = <<0, 0>> /\ planOut = << >>
DwIdle ==
    /\ dwIn = [head_ok |-> FALSE, len |-> [kind |-> "absent"],
               ranges |-> FALSE, honours |-> FALSE, answers |-> 0,
               starts |-> 0, joins |-> "late", faults |-> 0, shorts |-> {}]
    /\ dwPc = "idle" /\ built = Pending
    /\ dl = [chunk_size |-> 0, total_chunk |-> 0, total_size |-> 0,
             handle |-> 0, starts |-> 0, joining |-> 0, joined |-> Pending]
    /\ tk = [d \in Tasks |-> "none"]
    /\ wk = [d \in Tasks |-> << >>] /\ dwDone = [d \in Tasks |-> << >>]
    /\ file = NoFile /\ counter = 0
    /\ dwResult = [d \in Tasks |-> Pending]
NoPlanner == [total_size |-> 0, total_tasks |-> 0, total_chunk |-> 0,
              chunks |-> << >>]
NoConsumer == [pc |-> "idle", joined |-> 0, res |-> Pending]
SmIdle ==
    /\ smIn = [head_ok |-> FALSE, len |-> [kind |-> "absent"],
               ranges |-> FALSE, honours |-> FALSE, num_cpus |-> 0,
               served |-> {}, refused |-> {}, faults |-> 0, mfaults |-> 0,
               shorts |-> {}]
    /\ smPc = "idle" /\ sm = NoPlanner /\ sw = << >> /\ smDone = << >>
    /\ temps = << >> /\ chan = << >> /\ cons = NoConsumer /\ mg = << >>
    /\ out = NoFile /\ active = 0 /\ smResult = Pending

\* TaskState
Running(p) == [kind |-> "Running", progress |-> p, msg |-> ""]
Paused == [kind |-> "Paused", progress |-> 0, msg |-> ""]
Finished == [kind |-> "Finished", progress |-> 0, msg |-> ""]
Error(m) == [kind |-> "Error", progress |-> 0, msg |-> m]
NoResponse == [src |-> 0, rem |-> 0]
NoChunk == [src |-> 0, len |-> 0]
\* the locals of download_with_control and the state of its file handle:
\* opened for append, its position, the write in flight (plen bytes of the
\* source from psrc), and whether the last write failed
NoControl ==
    [local_file_size |-> 0, total_size |-> 0, downloaded_bytes |-> 0,
     append |-> FALSE, pos |-> 0, plen |-> 0, psrc |-> 0, perr |-> FALSE]
RqIdle ==
    /\ rqIn = [size |-> 0, local |-> 0, has_len |-> FALSE,
               head_status |-> FALSE, get_status |-> FALSE, ranges |-> FALSE,
               handed |-> "receiver"]
    /\ rqPc = [t \in Tasks |-> "idle"]
    /\ state = Running(0) /\ receivers = 0
    /\ guard = FALSE /\ caller = "free"
    /\ rq = [t \in Tasks |-> NoControl]
    /\ body = [t \in Tasks |-> NoResponse]
    /\ chunk = [t \in Tasks |-> NoChunk]
    /\ rqFile = NoFile
    /\ rqResult = [t \in Tasks |-> Pending]
    /\ unseen = [t \in Tasks |-> FALSE] /\ tracer = 0

(***************************************************************************)
(* Chunk Planner (libs/request/mod.rs calculate_chunk_ranges)              *)
(***************************************************************************)
\* the sizes the planner is applied to: the small ones, and the 10 MiB of
\* the spec's scenario
PlanSizes == (1..MaxPlanSize) \cup {10 * MB, 10 * MB + 3}

InitPlan ==
    /\ prog = "plan"
    /\ planIn \in {<<t, n>> : t \in PlanSizes, n \in 1..MaxPlanChunks}
    /\ planIn[2] <= planIn[1]
    /\ planOut = << >>
    /\ DwIdle /\ SmIdle /\ RqIdle

Plan ==
    /\ prog = "plan"
    /\ planOut = << >>
    /\ planOut' = calculate_chunk_ranges(planIn[1], planIn[2])
    /\ UNCHANGED <<prog, planIn, notPlan>>

NextPlan == Plan

(***************************************************************************)
(* Direct-write download (libs/mod.rs)                                     *)
(***************************************************************************)
\* thiserror's Display of a DownloadError, as the pieces of the string
Display(e) ==
    CASE e.kind = "HttpRequest" -> <<"HTTP request failed: ", e.cause>>
      [] e.kind = "InvalidResponse" -> <<"Invalid Response Header">>
      [] e.kind = "IO" -> <<"File operation failed: ", e.cause>>
      [] e.kind = "ChunkStatus" ->
            <<"\tChunk ", ToString(e.idx), " failed: ", e.cause>>
      [] e.kind = "ChunkFailure" -> <<"Chunk download failed:\n">> \o e.msg

\* the strings of the failed results, concatenated in the order of results
RECURSIVE ErrorString(_)
ErrorString(results) ==
    IF results = << >> THEN << >>
    ELSE (IF Head(results) = Ok THEN << >> ELSE Display(Head(results)))
         \o ErrorString(Tail(results))

\* the sizes the probe reports: one byte, one chunk that the writer's
\* buffer holds in part, one chunk of the largest size, four chunks with a
\* remainder
DwSizes == {1, 10000, 128 * KB - 1, 128 * KB + 3}
\* Content-Length as the header carries it: absent, unparseable, or a number
DwLengths ==
    {[kind |-> "absent"], [kind |-> "garbage"]}
    \cup {[kind |-> "digits", val |-> n] : n \in {0} \cup DwSizes}
\* .get(CONTENT_LENGTH) ... v.parse().ok() ... unwrap_or_default()
ParseLenOrOne(h) == IF h.kind = "digits" THEN h.val ELSE 1
ParseLen(h) == IF h.kind = "digits" THEN h.val ELSE 0

\* The server and the caller of one behaviour: the probe's response (head_ok,
\* len, ranges); honours: the server answers a ranged GET with the range, else
\* with the whole resource; answers: the number of GETs that come back at
\* all, the others staying without a response for ever (the Client has no
\* timeout); starts: the number of times the caller calls start(); joins:
\* "late" for a caller that calls join() as main.rs does, once, when
\* running() is false, and awaits it, "any" for one that calls join() at
\* any time and may drop its future; faults: the number of Fetch Workers
\* the environment lets fail; shorts: the numbers of bytes the device may
\* have written of a write that fails (the room left under a file-size
\* limit or on a full disk).
Unlimited == Sat
\* the devices of the downloads followed stop a write that fails before
\* its first byte or after 1000 bytes
Shorts == {0, 1000}
\* every probe with the caller of main.rs, against a server that honours
\* Range and workers that may fail; the resource of four chunks against a
\* server that ignores Range (the GET of a lone chunk asks for the whole
\* resource, so there the two servers answer alike); and the callers that
\* call start() and join() at any time, on the resources of one chunk
DwProbes ==
    [head_ok : BOOLEAN, len : DwLengths, ranges : BOOLEAN, honours : {TRUE},
     answers : {Unlimited}, starts : {1}, joins : {"late"},
     faults : {MaxFaults}, shorts : {Shorts}]
    \cup [head_ok : {TRUE},
          len : {[kind |-> "digits", val |-> 128 * KB + 3]},
          ranges : {TRUE}, honours : {FALSE}, answers : {Unlimited},
          starts : {1}, joins : {"late"}, faults : {0}, shorts : {{}}]
    \cup [head_ok : {TRUE},
          len : {[kind |-> "digits", val |-> n] : n \in {1, 10000}},
          ranges : {FALSE}, honours : {TRUE}, answers : {Unlimited},
          starts : 1..MaxStarts, joins : {"any"}, faults : {MaxFaults},
          shorts : {Shorts}]
\* no Downloader: its fields; handle: the task whose JoinHandle it holds, 0
\* for None; starts: the calls of start(); joining: the task a join() in
\* progress awaits, 0 for none; joined: what the last join() returned
NoDownloader ==
    [chunk_size |-> 0, total_chunk |-> 0, total_size |-> 0,
     handle |-> 0, starts |-> 0, joining |-> 0, joined |-> Pending]

\* a Fetch Worker: its range; its body, blen bytes of the source from bsrc;
\* got bytes taken by its BufWriter, wpos of them handed on to the tokio
\* File, of which the last plen are a write still in flight on the blocking
\* pool; perr: that write failed and the next operation on the File will
\* report it; buf: the buffer in hand
IdleWorker ==
    [pc |-> "idle", start |-> 0, end |-> 0, bsrc |-> 0, blen |-> 0,
     got |-> 0, wpos |-> 0, plen |-> 0, perr |-> FALSE, buf |-> 0, nb |-> 0,
     seen |-> 0, res |-> Pending]

InitDirect(probes) ==
    /\ prog = "dw"
    /\ dwIn \in probes
    /\ dwPc = "new" /\ built = Pending
    /\ dl = NoDownloader /\ tk = [d \in Tasks |-> "none"]
    /\ wk = [d \in Tasks |-> << >>] /\ dwDone = [d \in Tasks |-> << >>]
    /\ file = NoFile /\ counter = 0 /\ dwResult = [d \in Tasks |-> Pending]
    /\ PlanIdle /\ SmIdle /\ RqIdle

\* Downloader::new
New ==
    /\ prog = "dw" /\ dwPc = "new"
    /\ LET total_size == ParseLen(dwIn.len)
           total_chunk == TotalChunk(total_size, dwIn.ranges)
       IN  IF ~dwIn.head_ok
           THEN /\ dwPc' = "failed"
                /\ built' = [kind |-> "HttpRequest", cause |-> "head"]
                /\ UNCHANGED dl
           ELSE IF total_size <= 0
           THEN /\ dwPc' = "failed"
                /\ built' = [kind |-> "InvalidResponse"]
                /\ UNCHANGED dl
           ELSE IF total_chunk = None
           THEN /\ dwPc' = "panic"
                /\ UNCHANGED <<dl, built>>
           ELSE /\ dwPc' = "ready"
                /\ built' = Ok
                /\ dl' = [NoDownloader EXCEPT
                            !.chunk_size = total_size \div total_chunk[1],
                            !.total_chunk = total_chunk[1],
                            !.total_size = total_size]
    /\ UNCHANGED <<prog, notDw, dwIn, tk, wk, dwDone, file, counter,
                   dwResult>>

Terminated(w) == w.pc \in {"ok", "err"}
\* the Fetch Workers, of all download tasks, that have met a failure
Faults ==
    LET n[d \in 0..MaxStarts] ==
            IF d = 0 THEN 0
            ELSE n[d - 1]
                 + Cardinality({i \in DOMAIN wk[d] :
                                   wk[d][i].pc = "err" \/ wk[d][i].perr})
    IN  n[MaxStarts]
\* the environment may let another worker fail
MayFail == Faults < dwIn.faults
\* the GETs that have come back, with a response or an error
Answered ==
    LET n[d \in 0..MaxStarts] ==
            IF d = 0 THEN 0
            ELSE n[d - 1]
                 + Cardinality({i \in DOMAIN wk[d] :
                                   wk[d][i].pc \notin {"idle", "sent"}})
    IN  n[MaxStarts]

\* Tracer::update: counter.fetch_add(len), one atomic step
update_overwrite(c, n) == n
update(c, n) == c + n
\* Tracer::progress, Tracer::running
progress(c, total_size) == (c * 100) \div total_size
running(c, total_size) == c < total_size

\* Downloader::start: handle.replace(tokio::spawn(download(..))) with a clone
\* of the same Tracer. The JoinHandle replaced is dropped, which detaches
\* its task: a download that is running goes on beside the new one.
Start ==
    /\ prog = "dw" /\ dwPc = "ready"
    /\ dl.joined # NoHandle /\ dl.joining = 0
    /\ dl.starts < dwIn.starts
    /\ dl' = [dl EXCEPT !.handle = dl.starts + 1, !.starts = @ + 1]
    /\ tk' = [tk EXCEPT ![dl.starts + 1] = "create"]
    /\ UNCHANGED <<prog, notDw, dwIn, dwPc, built, wk, dwDone, file, counter,
                   dwResult>>

\* Downloader::join up to its await: handle.take().unwrap(), a panic when
\* handle is None
Join ==
    /\ prog = "dw" /\ dwPc = "ready"
    /\ dl.joined # NoHandle /\ dl.joining = 0
    /\ \/ dwIn.joins = "any"
       \/ ~running(counter, dl.total_size) /\ dl.joined = Pending
    /\ dl' = IF dl.handle = 0 THEN [dl EXCEPT !.joined = NoHandle]
             ELSE [dl EXCEPT !.handle = 0, !.joining = dl.handle]
    /\ UNCHANGED <<prog, notDw, dwIn, dwPc, built, tk, wk, dwDone, file,
                   counter, dwResult>>

\* the JoinHandle awaited by join() is ready: the task's result is returned
Joined ==
    /\ prog = "dw" /\ dl.joining # 0
    /\ tk[dl.joining] = "done"
    /\ dl' = [dl EXCEPT !.joining = 0, !.joined = dwResult[dl.joining]]
    /\ UNCHANGED <<prog, notDw, dwIn, dwPc, built, tk, wk, dwDone, file,
                   counter, dwResult>>

\* the caller drops the future of join() before it is ready (a select!, a
\* timeout): the JoinHandle taken is dropped with it, the task goes on
JoinDrop ==
    /\ prog = "dw" /\ dl.joining # 0
    /\ dwIn.joins = "any"
    /\ dl' = [dl EXCEPT !.joining = 0]
    /\ UNCHANGED <<prog, notDw, dwIn, dwPc, built, tk, wk, dwDone, file,
                   counter, dwResult>>

\* download: File::create(&output).await?, which truncates a file that
\* exists
CreateFile(d) ==
    /\ prog = "dw" /\ tk[d] = "create"
    /\ \/ /\ file' = EmptyFile
          /\ tk' = [tk EXCEPT ![d] = "setlen"]
          /\ UNCHANGED dwResult
       \/ /\ tk' = [tk EXCEPT ![d] = "done"]
          /\ dwResult' = [dwResult EXCEPT
                            ![d] = [kind |-> "IO", cause |-> "create"]]
          /\ UNCHANGED file
    /\ UNCHANGED <<prog, notDw, dwIn, dwPc, built, dl, wk, dwDone, counter>>

\* download: .set_len(total_size).await? on the file just created, and
\* then the stream of the futures of the total_chunk Fetch Workers
SetLength(d) ==
    /\ prog = "dw" /\ tk[d] = "setlen"
    /\ \/ /\ file' = SetLen(file, dl.total_size)
          /\ tk' = [tk EXCEPT ![d] = "run"]
          /\ wk' = [wk EXCEPT
                      ![d] = [i \in 0..dl.total_chunk - 1 |-> IdleWorker]]
          /\ UNCHANGED dwResult
       \/ /\ tk' = [tk EXCEPT ![d] = "done"]
          /\ dwResult' = [dwResult EXCEPT
                            ![d] = [kind |-> "IO", cause |-> "set_len"]]
          /\ UNCHANGED <<file, wk>>
    /\ UNCHANGED <<prog, notDw, dwIn, dwPc, built, dl, dwDone, counter>>

InFlight(ws) == {i \in DOMAIN ws : ws[i].pc \notin {"idle", "ok", "err"}}
\* buffer_unordered(limit) polls another future only while it holds fewer
\* than limit unfinished ones
HasRoomAlways(ws, limit) == TRUE
HasRoom(ws, limit) == Cardinality(InFlight(ws)) < limit

\* worker i of task d ends with result r (Ok or an error): buffer_unordered
\* yields it
Finish(d, i, w, r) ==
    /\ wk' = [wk EXCEPT ![d][i] = [w EXCEPT !.pc = IF r = Ok THEN "ok"
                                                   ELSE "err",
                                            !.res = r]]
    /\ dwDone' = [dwDone EXCEPT ![d] = Append(@, r)]

\* buffer_unordered(12) takes the next future of the iterator (the futures
\* are taken in index order, so the next one is the idle one whose
\* predecessor is not idle), which builds its range and sends the GET
Request(d, i) ==
    /\ prog = "dw" /\ tk[d] = "run"
    /\ wk[d][i].pc = "idle"
    /\ IF i = 0 THEN TRUE ELSE wk[d][i - 1].pc # "idle"
    /\ HasRoom(wk[d], DwLimit)
    /\ wk' = [wk EXCEPT ![d][i] =
                [@ EXCEPT !.pc = "sent",
                          !.start = DwStart(i, dl.chunk_size),
                          !.end = DwEnd(i, dl.chunk_size, dl.total_chunk,
                                        dl.total_size)]]
    /\ UNCHANGED <<prog, notDw, dwIn, dwPc, built, dl, tk, dwDone, file,
                   counter, dwResult>>

\* .send().await?, the status test (any 2xx passes, 200 as well as 206), and
\* for a success the worker's own handle:
\* OpenOptions::new().write(true).open(output).await?, seek(start)
Respond(d, i) ==
    /\ prog = "dw" /\ wk[d][i].pc = "sent"
    /\ Answered < dwIn.answers
    /\ \/ /\ wk' = [wk EXCEPT ![d][i] =
                      [@ EXCEPT !.pc = "stream",
                                !.bsrc = BodySrc(wk[d][i].start,
                                                 dwIn.honours),
                                !.blen = BodyLen(wk[d][i].start,
                                                 wk[d][i].end, dl.total_size,
                                                 dwIn.honours)]]
          /\ UNCHANGED dwDone
       \/ /\ MayFail
          /\ \E e \in {[kind |-> "HttpRequest", cause |-> "send"],
                        [kind |-> "ChunkStatus", idx |-> i,
                         cause |-> "404 Not Found"],
                        [kind |-> "IO", cause |-> "open"]} :
                Finish(d, i, wk[d][i], e)
    /\ UNCHANGED <<prog, notDw, dwIn, dwPc, built, dl, tk, file, counter,
                   dwResult>>

\* BufWriter::poll_write of n bytes by a writer that holds held bytes: the
\* held bytes are first handed to the File when the buffer cannot take n
\* more, and n bytes of the capacity or more go to the File directly
NeedsFlush(held, n) == held > 0 /\ held + n > BufCap
Direct(n) == n >= BufCap

\* one poll of file.write_all(&chunk) by worker i of task d in state w,
\* w.buf the buffer. tokio's File takes bytes handed to it (poll_write) only
\* when its previous write has completed (else the poll is Pending), reports
\* that write's error if it failed, and else starts the new write on the
\* blocking pool and returns Ok: the bytes are in the file only later.
PollWrite(d, i, w) ==
    LET held == w.got - w.wpos
        n == w.buf
        taken == [w EXCEPT !.pc = "stream", !.got = w.got + n, !.buf = 0]
    IN  IF ~NeedsFlush(held, n) /\ ~Direct(n)
        THEN wk' = [wk EXCEPT ![d][i] = taken] /\ UNCHANGED dwDone
        ELSE IF w.plen > 0
        THEN wk' = [wk EXCEPT ![d][i] = w] /\ UNCHANGED dwDone
        ELSE IF w.perr
        THEN Finish(d, i, [w EXCEPT !.perr = FALSE, !.buf = 0],
                    [kind |-> "IO", cause |-> "write"])
        ELSE IF NeedsFlush(held, n)
        THEN /\ wk' = [wk EXCEPT ![d][i] =
                        IF Direct(n)
                        THEN [w EXCEPT !.wpos = w.got, !.plen = held]
                        ELSE [taken EXCEPT !.wpos = w.got, !.plen = held]]
             /\ UNCHANGED dwDone
        ELSE /\ wk' = [wk EXCEPT ![d][i] =
                        [taken EXCEPT !.wpos = w.got + n, !.plen = n]]
             /\ UNCHANGED dwDone

\* one turn of the stream loop: a buffer arrives (or the stream fails),
\* tracer.update counts it, and write_all is polled
Recv(d, i) ==
    /\ prog = "dw" /\ wk[d][i].pc = "stream"
    /\ wk[d][i].got < wk[d][i].blen
    /\ LET w == wk[d][i] IN
       \/ \E n \in BufLens(w.blen - w.got, w.nb) :
            /\ counter' = update(counter, n)
            /\ PollWrite(d, i, [w EXCEPT !.pc = "write", !.buf = n,
                                         !.nb = w.nb + 1,
                                         !.seen = w.seen + n])
       \/ /\ MayFail
          /\ Finish(d, i, w, [kind |-> "HttpRequest", cause |-> "body"])
          /\ UNCHANGED counter
    /\ UNCHANGED <<prog, notDw, dwIn, dwPc, built, dl, tk, file, dwResult>>

\* write_all is polled again when the File's write in flight has completed
WriteAll(d, i) ==
    /\ prog = "dw" /\ wk[d][i].pc = "write"
    /\ wk[d][i].plen = 0
    /\ PollWrite(d, i, wk[d][i])
    /\ UNCHANGED <<prog, notDw, dwIn, dwPc, built, dl, tk, file, counter,
                   dwResult>>

\* the blocking pool runs the write in flight of the File of worker i: the
\* bytes reach the file at the handle's position, or the write fails after
\* some of them and the error waits in the File. The write runs even when
\* the worker has ended and dropped its File.
Commit(d, i) ==
    /\ prog = "dw" /\ wk[d][i].plen > 0
    /\ LET w == wk[d][i]
           done == w.wpos - w.plen
       IN  \/ /\ file' = WriteAt(file, w.start + done, w.bsrc + done, w.plen)
              /\ wk' = [wk EXCEPT ![d][i] = [w EXCEPT !.plen = 0]]
           \/ /\ MayFail
              /\ wk' = [wk EXCEPT ![d][i] = [w EXCEPT !.plen = 0,
                                                      !.perr = TRUE]]
              /\ \E p \in dwIn.shorts \cap Prefixes(w.plen) :
                    file' = WriteAt(file, w.start + done, w.bsrc + done, p)
    /\ UNCHANGED <<prog, notDw, dwIn, dwPc, built, dl, tk, dwDone, counter,
                   dwResult>>

\* the stream has ended: file.flush().await?; Ok(()). BufWriter::flush hands
\* the held bytes to the File, and the File's flush waits for its write in
\* flight and reports the error of the last write
Flush(d, i) ==
    /\ prog = "dw" /\ wk[d][i].pc = "stream"
    /\ wk[d][i].got = wk[d][i].blen
    /\ wk[d][i].plen = 0
    /\ LET w == wk[d][i] IN
       IF w.perr
       THEN Finish(d, i, [w EXCEPT !.perr = FALSE],
                   [kind |-> "IO", cause |-> "flush"])
       ELSE IF w.got > w.wpos
       THEN /\ wk' = [wk EXCEPT ![d][i] = [w EXCEPT !.wpos = w.got,
                                                    !.plen = w.got - w.wpos]]
            /\ UNCHANGED dwDone
       ELSE Finish(d, i, w, Ok)
    /\ UNCHANGED <<prog, notDw, dwIn, dwPc, built, dl, tk, file, counter,
                   dwResult>>

\* producers.collect().await has every result: the errors' strings are
\* joined, and the call returns Ok when the string is empty
CollectShortCircuit(ws) ==
    \/ \A i \in DOMAIN ws : Terminated(ws[i])
    \/ \E i \in DOMAIN ws : ws[i].pc = "err"
CollectReady(ws) == \A i \in DOMAIN ws : Terminated(ws[i])
Collect(d) ==
    /\ prog = "dw" /\ tk[d] = "run"
    /\ CollectReady(wk[d])
    /\ LET error == ErrorString(dwDone[d])
       IN  dwResult' = [dwResult EXCEPT
                          ![d] = IF error = << >> THEN Ok
                                 ELSE [kind |-> "ChunkFailure",
                                       msg |-> error]]
    /\ tk' = [tk EXCEPT ![d] = "done"]
    /\ UNCHANGED <<prog, notDw, dwIn, dwPc, built, dl, wk, dwDone, file,
                   counter>>

WorkerStep(d, i) ==
    Request(d, i) \/ Respond(d, i) \/ Recv(d, i) \/ WriteAll(d, i)
    \/ Commit(d, i) \/ Flush(d, i)

NextDW ==
    \/ New
    \/ Start
    \/ Join
    \/ Joined
    \/ JoinDrop
    \/ \E d \in Tasks : CreateFile(d)
    \/ \E d \in Tasks : SetLength(d)
    \/ \E d \in Tasks : \E i \in DOMAIN wk[d] : Request(d, i)
    \/ \E d \in Tasks : \E i \in DOMAIN wk[d] : Respond(d, i)
    \/ \E d \in Tasks : \E i \in DOMAIN wk[d] : Recv(d, i)
    \/ \E d \in Tasks : \E i \in DOMAIN wk[d] : WriteAll(d, i)
    \/ \E d \in Tasks : \E i \in DOMAIN wk[d] : Commit(d, i)
    \/ \E d \in Tasks : \E i \in DOMAIN wk[d] : Flush(d, i)
    \/ \E d \in Tasks : Collect(d)

(***************************************************************************)
(* Stage-and-merge download (libs/request/mod.rs)                          *)
(***************************************************************************)
\* a Fetch Worker before its future is built: no semaphore, no permit; the
\* fields of its body and of its BufWriter over a tokio File are those of
\* the direct-write worker
IdleFetch ==
    [pc |-> "idle", start |-> 0, end |-> 0, bsrc |-> 0, blen |-> 0,
     got |-> 0, wpos |-> 0, plen |-> 0, perr |-> FALSE, buf |-> 0, nb |-> 0,
     seen |-> 0, res |-> Pending, gate |-> -1, permit |-> FALSE]
\* the map closure runs once for each chunk, and each run makes a semaphore:
\* Arc::new(Semaphore::new(total_tasks)); the gate of worker id is its own
SemaphoreOf(id) == id
\* let _ = semaphore.acquire().await: the pattern _ binds nothing, so the
\* permit is dropped at the end of the statement
PermitKept == FALSE

\* sizes the probe reports: 1 MiB, for which the chunk table has no entry,
\* and one byte more
SmSizes == {MB, MB + 1}
SmLengths ==
    {[kind |-> "absent"]} \cup {[kind |-> "digits", val |-> n] : n \in SmSizes}

\* The server and the host of one behaviour: the probe's response and
\* honours as for the direct-write download, the CPU count; served: the
\* chunks whose GET comes back at all, the GETs of the others staying
\* without a response for ever (the Client has no timeout); refused: the
\* chunks whose GET the server answers with an error status; faults: the
\* number of Fetch Worker and consumer steps the environment lets fail;
\* mfaults: the number of merge tasks it lets fail; shorts as for the
\* direct-write download.
\*
\* The merge tasks of two staged chunks run side by side, and tokio::io::copy
\* lets the other task write after any of its buffers: two chunks of b
\* buffers leave the final file in any of 2^b contents.  The downloads in
\* which two chunks are staged are therefore followed on the host whose
\* chunks have two buffers (SmWide); on the hosts of 1..MaxCpus CPUs, whose
\* chunks have 64 buffers and more, the server refuses every chunk but one.
AllChunks == 0..OptCap - 1
\* every probe against a server that honours Range and answers every GET,
\* one of the first two chunks with its body and the others with an error
\* status, with workers and merge tasks that may fail
SmHonoured ==
    [head_ok : BOOLEAN, len : SmLengths, ranges : BOOLEAN, honours : {TRUE},
     num_cpus : 1..MaxCpus, served : {AllChunks},
     refused : {AllChunks \ {c} : c \in 0..1}, faults : {MaxFaults},
     mfaults : {MaxFaults}, shorts : {Shorts}]
\* A host with more chunks than concurrent tasks: WideCpus CPUs give
\* calculate_concurrent_tasks() = 16 and 64 chunks of 16384 bytes, two
\* buffers of tokio::io::copy each.  The interleavings of 64 workers and 64
\* merge tasks that all run to their end are too many to enumerate, so the
\* servers of these behaviours answer the GETs of at most two chunks; every
\* schedule of these downloads is followed, the merges buffer by buffer,
\* with workers and merge tasks that may fail.
WideCpus == 64
SmWide ==
    [head_ok : {TRUE}, len : {[kind |-> "digits", val |-> MB + 1]},
     ranges : {TRUE}, honours : {TRUE}, num_cpus : {WideCpus},
     served : SUBSET {0, 15}, refused : {{}}, faults : {MaxFaults},
     mfaults : {MaxFaults}, shorts : {Shorts}]
\* the size that is planned in two chunks against a server that ignores
\* Range and answers the GET of one of them, with the whole resource
SmIgnored ==
    [head_ok : {TRUE}, len : {[kind |-> "digits", val |-> MB + 1]},
     ranges : {TRUE}, honours : {FALSE}, num_cpus : {2},
     served : {{0}, {1}}, refused : {{}}, faults : {0}, mfaults : {0},
     shorts : {{}}]
SmProbes == SmHonoured \cup SmWide \cup SmIgnored
InitStaged(probes) ==
    /\ prog = "sm"
    /\ smIn \in probes
    /\ smPc = "head" /\ sm = NoPlanner /\ sw = << >> /\ smDone = << >>
    /\ temps = << >> /\ chan = << >> /\ cons = NoConsumer /\ mg = << >>
    /\ out = NoFile /\ active = 0 /\ smResult = Pending
    /\ PlanIdle /\ DwIdle /\ RqIdle

\* get_total_size
get_total_size(resp) ==
    IF resp.ranges THEN [kind |-> "Ok", val |-> ParseLen(resp.len)]
    ELSE [kind |-> "RangeNotSupported"]

NoMerge ==
    [pc |-> "none", pos |-> 0, copied |-> 0, joined |-> FALSE]

\* download up to the spawn of the consumer: the probe, the plan, the
\* temporary files' names, the channel
SmProbe ==
    /\ prog = "sm" /\ smPc = "head"
    /\ LET size == get_total_size(smIn)
           n == calculate_optimal_chunks(size.val, smIn.num_cpus)
       IN  IF ~smIn.head_ok
           THEN /\ smPc' = "done"
                /\ smResult' = [kind |-> "HttpRequest", cause |-> "head"]
                /\ UNCHANGED <<sm, sw, temps, mg, cons>>
           ELSE IF size.kind # "Ok"
           THEN /\ smPc' = "done"
                /\ smResult' = [kind |-> "RangeNotSupported"]
                /\ UNCHANGED <<sm, sw, temps, mg, cons>>
           ELSE IF n = None
           THEN /\ smPc' = "panic"
                /\ UNCHANGED <<sm, sw, temps, mg, cons, smResult>>
           ELSE /\ smPc' = "run"
                /\ sm' = [total_size |-> size.val,
                          total_tasks |->
                              calculate_concurrent_tasks(smIn.num_cpus),
                          total_chunk |-> n[1],
                          chunks |-> calculate_chunk_ranges(size.val, n[1])]
                /\ sw' = [i \in 0..n[1] - 1 |-> IdleFetch]
                /\ temps' = [i \in 0..n[1] - 1 |-> NoFile]
                /\ mg' = [i \in 0..n[1] - 1 |-> NoMerge]
                /\ cons' = [cons EXCEPT !.pc = "open"]
                /\ UNCHANGED smResult
    /\ UNCHANGED <<prog, notSm, smIn, smDone, chan, out, active>>

\* the consumer's error when it cannot open the final file
OpenOutputError == [kind |-> "Io", cause |-> "open output"]
\* the steps the environment has let fail (an error status of a chunk the
\* server refuses is the server's answer); it may let another one fail
SmFaults ==
    Cardinality({i \in DOMAIN sw :
                    \/ sw[i].perr
                    \/ /\ sw[i].pc = "err"
                       /\ (i \in smIn.refused
                              => sw[i].res.kind # "ChunkFailure")})
    + (IF cons.res = OpenOutputError THEN 1 ELSE 0)
SmMayFail == SmFaults < smIn.faults
\* the environment may let another merge task fail
MergeFaults == Cardinality({i \in DOMAIN mg : mg[i].pc = "failed"})
MergeMayFail == MergeFaults < smIn.mfaults

\* the future of chunk id ends with result r: fetch_sub, and
\* buffer_unordered yields the result
SmFinish(id, w, r) ==
    /\ sw' = [sw EXCEPT ![id] = [w EXCEPT !.pc = IF r = Ok THEN "ok"
                                                 ELSE "err",
                                          !.res = r]]
    /\ smDone' = Append(smDone, r)
    /\ active' = active - 1

\* buffer_unordered(total_tasks) takes the next future: the permit of the
\* future's own semaphore, fetch_add, and download_chunk's GET
SmRequest(id) ==
    /\ prog = "sm" /\ smPc = "run"
    /\ sw[id].pc = "idle"
    /\ IF id = 0 THEN TRUE ELSE sw[id - 1].pc # "idle"
    /\ HasRoom(sw, sm.total_tasks)
    /\ sw' = [sw EXCEPT ![id] =
                [@ EXCEPT !.pc = "sent",
                          !.gate = SemaphoreOf(id),
                          !.permit = PermitKept,
                          !.start = sm.chunks[id + 1][1],
                          !.end = sm.chunks[id + 1][2]]]
    /\ active' = active + 1
    /\ UNCHANGED <<prog, notSm, smIn, smPc, sm, smDone, temps, chan, cons,
                   mg, out, smResult>>

\* download_chunk: .send().await?, the status test (any 2xx passes),
\* File::create(path)
SmRespond(id) ==
    /\ prog = "sm" /\ sw[id].pc = "sent"
    /\ id \in smIn.served
    /\ \/ /\ id \in smIn.refused
          /\ SmFinish(id, sw[id],
                      [kind |-> "ChunkFailure",
                       cause |-> "Invalid status code: 404 Not Found"])
          /\ UNCHANGED temps
       \/ /\ id \notin smIn.refused
          /\ sw' = [sw EXCEPT ![id] =
                      [@ EXCEPT !.pc = "stream",
                                !.bsrc = BodySrc(sw[id].start, smIn.honours),
                                !.blen = BodyLen(sw[id].start, sw[id].end,
                                                 sm.total_size,
                                                 smIn.honours)]]
          /\ temps' = [temps EXCEPT ![id] = EmptyFile]
          /\ UNCHANGED <<smDone, active>>
       \/ /\ SmMayFail
          /\ \E e \in {[kind |-> "HttpRequest", cause |-> "send"]}
                      \cup (IF id \in smIn.refused THEN {}
                            ELSE {[kind |-> "ChunkFailure",
                                   cause |->
                                     "Invalid status code: 404 Not Found"],
                                  [kind |-> "Io", cause |-> "create"]}) :
                SmFinish(id, sw[id], e)
          /\ UNCHANGED temps
    /\ UNCHANGED <<prog, notSm, smIn, smPc, sm, chan, cons, mg, out,
                   smResult>>

\* one poll of file.write_all(&chunk) by the worker of chunk id in state w:
\* the BufWriter and the tokio File of PollWrite, over the temporary file
SmPollWrite(id, w) ==
    LET held == w.got - w.wpos
        n == w.buf
        taken == [w EXCEPT !.pc = "stream", !.got = w.got + n, !.buf = 0]
    IN  IF ~NeedsFlush(held, n) /\ ~Direct(n)
        THEN sw' = [sw EXCEPT ![id] = taken] /\ UNCHANGED <<smDone, active>>
        ELSE IF w.plen > 0
        THEN sw' = [sw EXCEPT ![id] = w] /\ UNCHANGED <<smDone, active>>
        ELSE IF w.perr
        THEN SmFinish(id, [w EXCEPT !.perr = FALSE, !.buf = 0],
                      [kind |-> "Io", cause |-> "write"])
        ELSE IF NeedsFlush(held, n)
        THEN /\ sw' = [sw EXCEPT ![id] =
                        IF Direct(n)
                        THEN [w EXCEPT !.wpos = w.got, !.plen = held]
                        ELSE [taken EXCEPT !.wpos = w.got, !.plen = held]]
             /\ UNCHANGED <<smDone, active>>
        ELSE /\ sw' = [sw EXCEPT ![id] =
                        [taken EXCEPT !.wpos = w.got + n, !.plen = n]]
             /\ UNCHANGED <<smDone, active>>

\* download_chunk's stream loop: a buffer arrives (or the stream fails) and
\* file.write_all(&chunk?).await? is polled
SmRecv(id) ==
    /\ prog = "sm" /\ sw[id].pc = "stream"
    /\ sw[id].got < sw[id].blen
    /\ LET w == sw[id] IN
       \/ \E n \in BufLens(w.blen - w.got, w.nb) :
            SmPollWrite(id, [w EXCEPT !.pc = "write", !.buf = n,
                                      !.nb = w.nb + 1])
       \/ /\ SmMayFail
          /\ SmFinish(id, w, [kind |-> "HttpRequest", cause |-> "body"])
    /\ UNCHANGED <<prog, notSm, smIn, smPc, sm, temps, chan, cons, mg, out,
                   smResult>>

\* write_all is polled again when the File's write in flight has completed
SmWriteAll(id) ==
    /\ prog = "sm" /\ sw[id].pc = "write"
    /\ sw[id].plen = 0
    /\ SmPollWrite(id, sw[id])
    /\ UNCHANGED <<prog, notSm, smIn, smPc, sm, temps, chan, cons, mg, out,
                   smResult>>

\* the blocking pool runs the write in flight of the worker's File: the
\* bytes reach the temporary file, or the write fails after some of them
\* and the error waits in the File.  The write runs even when the worker
\* has ended and dropped its File.
SmCommit(id) ==
    /\ prog = "sm" /\ sw[id].plen > 0
    /\ LET w == sw[id]
           done == w.wpos - w.plen
       IN  \/ /\ temps' = [temps EXCEPT ![id] =
                            WriteAt(temps[id], done, w.bsrc + done, w.plen)]
              /\ sw' = [sw EXCEPT ![id] = [w EXCEPT !.plen = 0]]
           \/ /\ SmMayFail
              /\ sw' = [sw EXCEPT ![id] = [w EXCEPT !.plen = 0,
                                                    !.perr = TRUE]]
              /\ \E p \in smIn.shorts \cap Prefixes(w.plen) :
                    temps' = [temps EXCEPT ![id] =
                                WriteAt(temps[id], done, w.bsrc + done, p)]
    /\ UNCHANGED <<prog, notSm, smIn, smPc, sm, smDone, chan, cons, mg, out,
                   active, smResult>>

\* the stream has ended: file.flush().await?, which hands the held bytes to
\* the File, waits for its write in flight and reports the error of the
\* last write; then Ok(()), and the hand-over notifier.send((id, path)),
\* which a dropped receiver refuses
SmFlush(id) ==
    /\ prog = "sm" /\ sw[id].pc = "stream"
    /\ sw[id].got = sw[id].blen
    /\ sw[id].plen = 0
    /\ LET w == sw[id] IN
       IF w.perr
       THEN /\ SmFinish(id, [w EXCEPT !.perr = FALSE],
                        [kind |-> "Io", cause |-> "flush"])
            /\ UNCHANGED chan
       ELSE IF w.got > w.wpos
       THEN /\ sw' = [sw EXCEPT ![id] = [w EXCEPT !.wpos = w.got,
                                                  !.plen = w.got - w.wpos]]
            /\ UNCHANGED <<smDone, active, chan>>
       ELSE /\ SmFinish(id, w, Ok)
            /\ chan' = IF cons.pc = "done" THEN chan ELSE Append(chan, id)
    /\ UNCHANGED <<prog, notSm, smIn, smPc, sm, temps, cons, mg, out,
                   smResult>>

\* the consumer task starts: the final file is created if it is missing
ConsOpen ==
    /\ prog = "sm" /\ cons.pc = "open"
    /\ \/ /\ out' = IF out.exists THEN out ELSE EmptyFile
          /\ cons' = [cons EXCEPT !.pc = "recv"]
       \/ /\ SmMayFail
          /\ cons' = [cons EXCEPT !.pc = "done", !.res = OpenOutputError]
          /\ UNCHANGED out
    /\ UNCHANGED <<prog, notSm, smIn, smPc, sm, sw, smDone, temps, chan, mg,
                   active, smResult>>

\* tracer.recv() yields a staged chunk: its merge task is spawned
ConsRecv ==
    /\ prog = "sm" /\ cons.pc = "recv"
    /\ chan # << >>
    /\ mg' = [mg EXCEPT ![Head(chan)].pc = "spawned"]
    /\ chan' = Tail(chan)
    /\ UNCHANGED <<prog, notSm, smIn, smPc, sm, sw, smDone, temps, cons, out,
                   active, smResult>>

\* the channel is closed: download's notifier and every clone of it are
\* dropped, which is when download has returned
SendersGone == smPc = "done"
\* tracer.recv() yields None
ConsClosed ==
    /\ prog = "sm" /\ cons.pc = "recv"
    /\ chan = << >>
    /\ SendersGone
    /\ cons' = [cons EXCEPT !.pc = "join"]
    /\ UNCHANGED <<prog, notSm, smIn, smPc, sm, sw, smDone, temps, chan, mg,
                   out, active, smResult>>

\* mix.join_next() yields a finished merge task: results.push(res??); an
\* error ends the consumer, whose JoinSet then aborts the tasks left
ConsJoin(id) ==
    /\ prog = "sm" /\ cons.pc = "join"
    /\ mg[id].pc \in {"done", "failed"} /\ ~mg[id].joined
    /\ IF mg[id].pc = "failed"
       THEN /\ cons' = [cons EXCEPT !.pc = "done",
                                     !.res = [kind |-> "Io",
                                              cause |-> "merge"]]
            /\ mg' = [i \in DOMAIN mg |->
                        IF i = id THEN [mg[i] EXCEPT !.joined = TRUE]
                        ELSE IF mg[i].pc \in {"spawned", "copy"}
                        THEN [mg[i] EXCEPT !.pc = "aborted"]
                        ELSE mg[i]]
       ELSE /\ cons' = [cons EXCEPT !.joined = @ + 1]
            /\ mg' = [mg EXCEPT ![id].joined = TRUE]
    /\ UNCHANGED <<prog, notSm, smIn, smPc, sm, sw, smDone, temps, chan, out,
                   active, smResult>>

\* the JoinSet is empty: the count check
ConsFinish ==
    /\ prog = "sm" /\ cons.pc = "join"
    /\ \A i \in DOMAIN mg : mg[i].pc # "none" => mg[i].joined
    /\ cons' = [cons EXCEPT
                  !.pc = "done",
                  !.res = IF cons.joined # sm.total_chunk
                          THEN [kind |-> "MergeFailure",
                                expected |-> sm.total_chunk,
                                got |-> cons.joined]
                          ELSE Ok]
    /\ UNCHANGED <<prog, notSm, smIn, smPc, sm, sw, smDone, temps, chan, mg,
                   out, active, smResult>>

\* the position of a handle just opened with OpenOptions::new().write(true)
FreshPosition == 0

\* a merge task opens the final file and its temporary file;
\* pos = out.stream_position(), out.seek(Start(pos))
MergeOpen(id) ==
    /\ prog = "sm" /\ mg[id].pc = "spawned"
    /\ \/ mg' = [mg EXCEPT ![id].pc = "copy", ![id].pos = FreshPosition]
       \/ /\ MergeMayFail
          /\ mg' = [mg EXCEPT ![id].pc = "failed"]
    /\ UNCHANGED <<prog, notSm, smIn, smPc, sm, sw, smDone, temps, chan, cons,
                   out, active, smResult>>

\* bytes c..c+n-1 of a file with extents exts, written to o from pos + c on
RECURSIVE CopyExts(_, _, _, _, _)
CopyExts(o, exts, c, n, pos) ==
    IF exts = {} THEN o
    ELSE LET e == CHOOSE x \in exts : TRUE
             lo == Max(e.off, c)
             hi == Min(e.off + e.len, c + n)
             o1 == IF lo < hi
                   THEN WriteAt(o, pos + lo, e.src + (lo - e.off), hi - lo)
                   ELSE o
         IN  CopyExts(o1, exts \ {e}, c, n, pos)

\* the buffer of tokio::io::copy
CopyBuf == 8192
\* the lengths of the next run of buffers a copy with rem bytes left moves
\* before another task writes: any number of whole buffers, or every byte
\* left
CopyLens(rem) ==
    {rem} \cup {k * CopyBuf : k \in 1..((rem - 1) \div CopyBuf)}

\* tokio::io::copy(&mut chunk, &mut out): a buffer is read from the
\* temporary file and written at the position of the task's own handle,
\* which the write moves on; between two buffers the other merge tasks run.
\* A write that fails has written some bytes of its buffer and ends the
\* task with the error
MergeCopy(id) ==
    /\ prog = "sm" /\ mg[id].pc = "copy"
    /\ mg[id].copied < temps[id].len
    /\ \/ \E n \in CopyLens(temps[id].len - mg[id].copied) :
            /\ out' = CopyExts(out, temps[id].ext, mg[id].copied, n,
                               mg[id].pos)
            /\ mg' = [mg EXCEPT ![id].copied = @ + n]
       \/ /\ MergeMayFail
          /\ \E p \in smIn.shorts
                       \cap Prefixes(Min(CopyBuf,
                                         temps[id].len - mg[id].copied)) :
               /\ out' = CopyExts(out, temps[id].ext, mg[id].copied, p,
                                  mg[id].pos)
               /\ mg' = [mg EXCEPT ![id].pc = "failed", ![id].copied = @ + p]
    /\ UNCHANGED <<prog, notSm, smIn, smPc, sm, sw, smDone, temps, chan, cons,
                   active, smResult>>

\* the copy has reached the end of the temporary file: remove_file(&path)
MergeRemoveEarly(id) ==
    /\ prog = "sm" /\ mg[id].pc = "copy"
    /\ temps' = [temps EXCEPT ![id] = NoFile]
    /\ mg' = [mg EXCEPT ![id].pc = "done"]
    /\ UNCHANGED <<prog, notSm, smIn, smPc, sm, sw, smDone, chan, cons, out,
                   active, smResult>>
MergeRemove(id) ==
    /\ prog = "sm" /\ mg[id].pc = "copy"
    /\ mg[id].copied = temps[id].len
    /\ \/ /\ temps' = [temps EXCEPT ![id] = NoFile]
          /\ mg' = [mg EXCEPT ![id].pc = "done"]
       \/ /\ MergeMayFail
          /\ mg' = [mg EXCEPT ![id].pc = "failed"]
          /\ UNCHANGED temps
    /\ UNCHANGED <<prog, notSm, smIn, smPc, sm, sw, smDone, chan, cons, out,
                   active, smResult>>

\* thiserror's Display of libs/request/mod.rs's DownloadError
SmDisplay(e) ==
    CASE e.kind = "HttpRequest" -> <<"HTTP request failed: ", e.cause>>
      [] e.kind = "Io" -> <<"File operation failed: ", e.cause>>
      [] e.kind = "RangeNotSupported" ->
            <<"Server does not support range requests">>
      [] e.kind = "ChunkFailure" -> <<"Chunk download failed: ", e.cause>>

\* the strings of the failed results, in the order of results
RECURSIVE SmErrors(_)
SmErrors(results) ==
    IF results = << >> THEN << >>
    ELSE (IF Head(results) = Ok THEN << >> ELSE <<SmDisplay(Head(results))>>)
         \o SmErrors(Tail(results))

\* producers.collect().await has every result: with errors download
\* returns their ChunkFailure, else it goes on to await the consumer
SmCollect ==
    /\ prog = "sm" /\ smPc = "run"
    /\ CollectReady(sw)
    /\ LET errors == SmErrors(smDone)
       IN  IF errors # << >>
           THEN /\ smResult' = [kind |-> "ChunkFailure", errors |-> errors]
                /\ smPc' = "done"
           ELSE /\ smPc' = "await"
                /\ UNCHANGED smResult
    /\ UNCHANGED <<prog, notSm, smIn, sm, sw, smDone, temps, chan, cons, mg,
                   out, active>>

\* consumer.await??; Ok(())
SmAwait ==
    /\ prog = "sm" /\ smPc = "await"
    /\ cons.pc = "done"
    /\ smResult' = cons.res
    /\ smPc' = "done"
    /\ UNCHANGED <<prog, notSm, smIn, sm, sw, smDone, temps, chan, cons, mg,
                   out, active>>

SmWorkerStep(id) ==
    SmRequest(id) \/ SmRespond(id) \/ SmRecv(id) \/ SmWriteAll(id)
    \/ SmCommit(id) \/ SmFlush(id)

NextSM ==
    \/ SmProbe
    \/ \E id \in DOMAIN sw : SmRequest(id)
    \/ \E id \in DOMAIN sw : SmRespond(id)
    \/ \E id \in DOMAIN sw : SmRecv(id)
    \/ \E id \in DOMAIN sw : SmWriteAll(id)
    \/ \E id \in DOMAIN sw : SmCommit(id)
    \/ \E id \in DOMAIN sw : SmFlush(id)
    \/ ConsOpen
    \/ ConsRecv
    \/ ConsClosed
    \/ \E id \in DOMAIN mg : ConsJoin(id)
    \/ ConsFinish
    \/ \E id \in DOMAIN mg : MergeOpen(id)
    \/ \E id \in DOMAIN mg : MergeCopy(id)
    \/ \E id \in DOMAIN mg : MergeRemove(id)
    \/ SmCollect
    \/ SmAwait

(***************************************************************************)
(* Controlled single-stream download (req.rs)                              *)
(* start_download may be called again on the same Downloader: every call   *)
(* spawns a task of its own, task t being the one of the t-th call; the    *)
(* tasks share the watch channel and the output file.                      *)
(***************************************************************************)
\* what download_with_control returns: Err(cause) of a `?`, or the panic of
\* the task
RqErr(c) == [kind |-> "Err", cause |-> c]

\* the output file found on disk: nothing, or the first l bytes of an
\* earlier download
LocalFile(l) ==
    IF l = 0 THEN NoFile
    ELSE [exists |-> TRUE, len |-> l,
          ext |-> {[off |-> 0, src |-> 0, len |-> l]}]

\* the Content-Length header of the HEAD response
ReqHeader(in) ==
    IF in.has_len THEN [kind |-> "digits", val |-> in.size]
    ELSE [kind |-> "absent"]

\* no task spawned yet
NoTasks ==
    /\ rqPc = [t \in Tasks |-> "idle"]
    /\ rq = [t \in Tasks |-> NoControl]
    /\ body = [t \in Tasks |-> NoResponse]
    /\ chunk = [t \in Tasks |-> NoChunk]
    /\ rqResult = [t \in Tasks |-> Pending]
    /\ unseen = [t \in Tasks |-> FALSE]

\* What the spawned task holds of the watch channel.  start_download makes
\* a Receiver with subscribe() and hands it to download_with_control, whose
\* parameter is declared a Sender and is used as one (send, borrow,
\* subscribe): the call does not type-check, and the file is in no build.
\* Both readings are followed: "receiver", the call as written, the task
\* keeping the Receiver of subscribe() alive while it sends through the
\* channel; "sender", the parameter as declared, the task holding a Sender
\* of the Downloader's channel and no Receiver.
Handed == {"receiver", "sender"}
\* the Receivers a task holds from start_download until it returns
TaskReceivers == IF rqIn.handed = "receiver" THEN 1 ELSE 0

\* Downloader::new: Running(0) in a watch channel that has no Receiver yet
InitReq ==
    /\ prog = "req"
    /\ rqIn \in [size : 1..MaxReqSize, local : 0..MaxReqSize,
                 has_len : BOOLEAN, head_status : BOOLEAN,
                 get_status : BOOLEAN, ranges : BOOLEAN, handed : Handed]
    /\ state = Running(0) /\ receivers = 0
    /\ guard = FALSE /\ caller = "free"
    /\ NoTasks
    /\ rqFile = LocalFile(rqIn.local)
    /\ tracer = 0
    /\ PlanIdle /\ DwIdle /\ SmIdle

\* task t goes on at pc
Goto(t, pc) == rqPc' = [rqPc EXCEPT ![t] = pc]
\* task t's download_with_control ends with r
Result(t, r) == rqResult' = [rqResult EXCEPT ![t] = r]

\* watch::Sender::send: without a Receiver it returns Err and leaves the
\* value alone; every caller here discards the result with `let _ =`
Send(v) ==
    IF receivers > 0 THEN state' = v ELSE UNCHANGED state

\* a thread waits for the channel's write lock
WriterWaiting ==
    caller = "blocked" \/ \E u \in Tasks : rqPc[u] = "locked"

\* a send of task t, after which it goes on at pc with result r: while the
\* Ref of another task's checkpoint holds the read lock, the send waits for
\* the write lock and the task goes no further
WorkerSend(t, v, pc, r) ==
    IF guard
    THEN Goto(t, "locked") /\ UNCHANGED <<state, rqResult>>
    ELSE Send(v) /\ Goto(t, pc) /\ Result(t, r)

\* a `?` on an Err: the function returns it, the state is not touched
Raise(t, c) ==
    /\ Goto(t, "return")
    /\ Result(t, RqErr(c))
    /\ UNCHANGED state

\* start_download, the t-th call: the task is spawned with its end of the
\* channel, which download_with_control owns until it returns
StartDownload(t) ==
    /\ prog = "req" /\ caller = "free"
    /\ rqPc[t] = "idle"
    /\ \A u \in Tasks : u < t => rqPc[u] # "idle"
    /\ Goto(t, "meta")
    /\ receivers' = receivers + TaskReceivers
    /\ UNCHANGED <<prog, notRq, rqIn, state, guard, caller, rq, body, chunk,
                   rqFile, rqResult>>

\* start(): send(Running(0)). While a worker waits at its checkpoint the
\* Ref of its borrow() is alive (a temporary of the `while let` scrutinee
\* lives to the end of the loop body) and holds the channel's read lock, so
\* send blocks the calling thread on the write lock.
StartCmd ==
    /\ prog = "req" /\ caller = "free"
    /\ IF guard THEN caller' = "blocked" /\ UNCHANGED state
       ELSE Send(Running(0)) /\ UNCHANGED caller
    /\ UNCHANGED <<prog, notRq, rqIn, rqPc, receivers, guard, rq, body, chunk,
                   rqFile, rqResult>>

\* pause(): send(Paused)
PauseCmd ==
    /\ prog = "req" /\ caller = "free"
    /\ IF guard THEN caller' = "blocked" /\ UNCHANGED state
       ELSE Send(Paused) /\ UNCHANGED caller
    /\ UNCHANGED <<prog, notRq, rqIn, rqPc, receivers, guard, rq, body, chunk,
                   rqFile, rqResult>>

\* tokio::fs::metadata(output_file) ... unwrap_or(0)
Metadata(t) ==
    /\ prog = "req" /\ rqPc[t] = "meta"
    /\ rq' = [rq EXCEPT ![t].local_file_size =
                            IF rqFile.exists THEN rqFile.len ELSE 0]
    /\ Goto(t, "head")
    /\ UNCHANGED <<prog, notRq, rqIn, state, receivers, guard, caller, body,
                   chunk, rqFile, rqResult>>

\* the HEAD request, total_size, and the already-complete check
HeadRequest(t) ==
    /\ prog = "req" /\ rqPc[t] = "head"
    /\ \/ Raise(t, "head") /\ UNCHANGED rq
       \/ LET total == IF rqIn.head_status THEN ParseLen(ReqHeader(rqIn))
                       ELSE 0
          IN  /\ rq' = [rq EXCEPT ![t].total_size = total]
              /\ IF rq[t].local_file_size >= total /\ total > 0
                 THEN WorkerSend(t, Finished, "return", Ok)
                 ELSE Goto(t, "get") /\ UNCHANGED <<state, rqResult>>
    /\ UNCHANGED <<prog, notRq, rqIn, receivers, guard, caller, body, chunk,
                   rqFile>>

\* the GET request, with Range: bytes=local_file_size- when a local file
\* exists; a server that honours the range answers 416 when it starts at or
\* past the end. A non-success status sends Error and returns Ok(()).
Get(t) ==
    /\ prog = "req" /\ rqPc[t] = "get"
    /\ \/ Raise(t, "get") /\ UNCHANGED body
       \/ LET from == IF rq[t].local_file_size > 0 /\ rqIn.ranges
                      THEN rq[t].local_file_size ELSE 0
          IN  IF rqIn.get_status /\ from < rqIn.size
              THEN /\ body' = [body EXCEPT ![t] =
                                 [src |-> from, rem |-> rqIn.size - from]]
                   /\ Goto(t, "open")
                   /\ UNCHANGED <<state, rqResult>>
              ELSE /\ WorkerSend(t, Error("status"), "return", Ok)
                   /\ UNCHANGED body
    /\ UNCHANGED <<prog, notRq, rqIn, receivers, guard, caller, rq, chunk,
                   rqFile>>

\* the handle of File::options().append(true).open, whose writes go to the
\* end of the file, or of File::create, which empties the file and writes
\* from its own position 0 on; no write in flight, none failed
Handle(r, f) ==
    [r EXCEPT !.append = r.local_file_size > 0,
              !.pos = IF r.local_file_size > 0 THEN f.len ELSE 0,
              !.plen = 0, !.psrc = 0, !.perr = FALSE]

\* the file is opened; downloaded_bytes starts at local_file_size
Open(t) ==
    /\ prog = "req" /\ rqPc[t] = "open"
    /\ \/ Raise(t, "file") /\ UNCHANGED <<rq, rqFile>>
       \/ /\ rqFile' = IF rq[t].local_file_size > 0 THEN rqFile
                       ELSE EmptyFile
          /\ rq' = [rq EXCEPT ![t] =
                      [Handle(rq[t], rqFile) EXCEPT
                          !.downloaded_bytes = rq[t].local_file_size]]
          /\ Goto(t, "chunk")
          /\ UNCHANGED <<state, rqResult>>
    /\ UNCHANGED <<prog, notRq, rqIn, receivers, guard, caller, body, chunk>>

\* response.chunk().await?: the next buffer, an error, or the end of the
\* body, after which Finished is sent
Chunk(t) ==
    /\ prog = "req" /\ rqPc[t] = "chunk"
    /\ \/ body[t].rem > 0 /\ Raise(t, "body") /\ UNCHANGED <<body, chunk>>
       \/ /\ body[t].rem > 0
          /\ \E n \in 1..body[t].rem :
                /\ chunk' = [chunk EXCEPT ![t] =
                               [src |-> body[t].src, len |-> n]]
                /\ body' = [body EXCEPT ![t] = [src |-> body[t].src + n,
                                                rem |-> body[t].rem - n]]
          /\ Goto(t, "check")
          /\ UNCHANGED <<state, rqResult>>
       \/ /\ body[t].rem = 0
          /\ WorkerSend(t, Finished, "return", Ok)
          /\ UNCHANGED <<body, chunk>>
    /\ UNCHANGED <<prog, notRq, rqIn, receivers, guard, caller, rq, rqFile>>

\* the pause checkpoint: borrow(); on Paused the loop body makes a Receiver
\* with subscribe() and awaits changed() on it, the borrow still alive.  A
\* borrow() that finds a thread waiting for the write lock waits behind it.
Check(t) ==
    /\ prog = "req" /\ rqPc[t] = "check"
    /\ IF WriterWaiting
       THEN /\ Goto(t, "locked")
            /\ UNCHANGED <<guard, receivers>>
       ELSE IF state.kind = "Paused"
       THEN /\ Goto(t, "wait")
            /\ guard' = TRUE
            /\ receivers' = receivers + 1
       ELSE /\ Goto(t, "write")
            /\ UNCHANGED <<guard, receivers>>
    /\ UNCHANGED <<prog, notRq, rqIn, state, caller, rq, body, chunk, rqFile,
                   rqResult>>

\* file.write_all(&chunk).await?, downloaded_bytes += len, progress,
\* send(Running(progress)).  The write waits for the one before it to
\* complete and returns that one's error; else the bytes are taken and
\* their write is given to the blocking pool, nothing is in the file yet.
\* The division panics when total_size is 0
Write(t) ==
    /\ prog = "req" /\ rqPc[t] = "write"
    /\ rq[t].plen = 0
    /\ IF rq[t].perr
       THEN /\ rq' = [rq EXCEPT ![t].perr = FALSE]
            /\ Raise(t, "file")
       ELSE LET d == rq[t].downloaded_bytes + chunk[t].len
            IN  /\ rq' = [rq EXCEPT ![t] =
                            [rq[t] EXCEPT !.plen = chunk[t].len,
                                          !.psrc = chunk[t].src,
                                          !.downloaded_bytes = d]]
                /\ IF rq[t].total_size = 0
                   THEN /\ Goto(t, "return") /\ Result(t, DivideByZero)
                        /\ UNCHANGED state
                   ELSE WorkerSend(t,
                            Running(((d * 100) \div rq[t].total_size) % 256),
                            "chunk", Pending)
    /\ UNCHANGED <<prog, notRq, rqIn, receivers, guard, caller, body, chunk,
                   rqFile>>

\* the blocking pool runs the write in flight of task t's handle: the bytes
\* land, or the write fails after some of them and the handle keeps the
\* error for its next operation.  A handle opened for append writes at the
\* end of the file, another at its position.  The write runs whether or not
\* the task still exists.
RqCommit(t) ==
    /\ prog = "req" /\ rq[t].plen > 0
    /\ LET at == IF rq[t].append THEN rqFile.len ELSE rq[t].pos
       IN  \/ /\ rqFile' = WriteAt(rqFile, at, rq[t].psrc, rq[t].plen)
              /\ rq' = [rq EXCEPT ![t].plen = 0,
                                  ![t].pos = at + rq[t].plen]
           \/ \E p \in Prefixes(rq[t].plen) :
                /\ rqFile' = WriteAt(rqFile, at, rq[t].psrc, p)
                /\ rq' = [rq EXCEPT ![t].plen = 0, ![t].perr = TRUE,
                                    ![t].pos = at + p]
    /\ UNCHANGED <<prog, notRq, rqIn, rqPc, state, receivers, guard, caller,
                   body, chunk, rqResult>>

\* the function returns (or unwinds): its locals and then its parameter, the
\* task's end of the channel, are dropped; the file is dropped without a
\* flush
Return(t) ==
    /\ prog = "req" /\ rqPc[t] = "return"
    /\ Goto(t, "done")
    /\ receivers' = receivers - TaskReceivers
    /\ UNCHANGED <<prog, notRq, rqIn, state, guard, caller, rq, body, chunk,
                   rqFile, rqResult>>

NextReq ==
    \/ \E t \in Tasks : StartDownload(t)
    \/ StartCmd
    \/ PauseCmd
    \/ \E t \in Tasks : Metadata(t)
    \/ \E t \in Tasks : HeadRequest(t)
    \/ \E t \in Tasks : Get(t)
    \/ \E t \in Tasks : Open(t)
    \/ \E t \in Tasks : Chunk(t)
    \/ \E t \in Tasks : Check(t)
    \/ \E t \in Tasks : Write(t)
    \/ \E t \in Tasks : RqCommit(t)
    \/ \E t \in Tasks : Return(t)

(***************************************************************************)
(* Controlled single-stream download (request.rs)                          *)
(* The state is request.rs's TaskState (Running, Paused, no payload) in    *)
(* the notifier channel; the positions, inputs, file and locals are those  *)
(* of req.rs's download_with_control, from which this one was derived.     *)
(***************************************************************************)
\* Downloader::new: Running in the notifier channel, 0 in the tracer channel,
\* neither with a Receiver yet
InitCtl ==
    /\ prog = "request"
    /\ rqIn \in [size : 1..MaxReqSize, local : 0..MaxReqSize,
                 has_len : BOOLEAN, head_status : BOOLEAN,
                 get_status : BOOLEAN, ranges : BOOLEAN,
                 handed : {"receiver"}]
    /\ state = Running(0) /\ receivers = 0
    /\ guard = FALSE /\ caller = "free"
    /\ NoTasks
    /\ rqFile = LocalFile(rqIn.local)
    /\ tracer = 0
    /\ PlanIdle /\ DwIdle /\ SmIdle

\* notifier.send(v): refused without a Receiver; else the value is stored
\* and the version raised, which the Receiver of every task that holds one
\* has then not yet seen
Notify(v) ==
    IF receivers > 0
    THEN /\ state' = v
         /\ unseen' = [t \in Tasks |-> rqPc[t] \notin {"idle", "done"}]
    ELSE UNCHANGED <<state, unseen>>

\* a `?` on an Err
CtlRaise(t, c) ==
    /\ Goto(t, "return")
    /\ Result(t, RqErr(c))

\* start_download, the t-th call: the Receiver of subscribe() has seen the
\* current version
CtlStartDownload(t) ==
    /\ prog = "request" /\ caller = "free"
    /\ rqPc[t] = "idle"
    /\ \A u \in Tasks : u < t => rqPc[u] # "idle"
    /\ Goto(t, "meta")
    /\ receivers' = receivers + 1
    /\ unseen' = [unseen EXCEPT ![t] = FALSE]
    /\ UNCHANGED <<prog, notCtl, caller, rqIn, state, rq, body, chunk, rqFile,
                   rqResult, tracer>>

\* start(): notifier.send(Running)
CtlStart ==
    /\ prog = "request" /\ caller = "free"
    /\ Notify(Running(0))
    /\ UNCHANGED <<prog, notCtl, caller, rqIn, rqPc, receivers, rq, body,
                   chunk, rqFile, rqResult, tracer>>

\* pause(): notifier.send(Paused)
CtlPause ==
    /\ prog = "request" /\ caller = "free"
    /\ Notify(Paused)
    /\ UNCHANGED <<prog, notCtl, caller, rqIn, rqPc, receivers, rq, body,
                   chunk, rqFile, rqResult, tracer>>

\* the Downloader is dropped, and with it the only Sender of the notifier
\* channel: the channel is closed, the tasks run on
CtlDrop ==
    /\ prog = "request" /\ caller = "free"
    /\ caller' = "dropped"
    /\ UNCHANGED <<prog, notCtl, rqIn, rqPc, state, receivers, rq, body,
                   chunk, rqFile, rqResult, ctlVars>>

\* tokio::fs::metadata(output) ... unwrap_or(0)
CtlMetadata(t) ==
    /\ prog = "request" /\ rqPc[t] = "meta"
    /\ rq' = [rq EXCEPT ![t].local_file_size =
                            IF rqFile.exists THEN rqFile.len ELSE 0]
    /\ Goto(t, "head")
    /\ UNCHANGED <<prog, notCtl, caller, rqIn, state, receivers, body, chunk,
                   rqFile, rqResult, ctlVars>>

\* the HEAD request, total_size, and the already-complete check
CtlHead(t) ==
    /\ prog = "request" /\ rqPc[t] = "head"
    /\ \/ CtlRaise(t, "head") /\ UNCHANGED rq
       \/ LET total == IF rqIn.head_status THEN ParseLen(ReqHeader(rqIn))
                       ELSE 0
          IN  /\ rq' = [rq EXCEPT ![t].total_size = total]
              /\ IF rq[t].local_file_size >= total /\ total > 0
                 THEN Goto(t, "return") /\ Result(t, Ok)
                 ELSE Goto(t, "get") /\ UNCHANGED rqResult
    /\ UNCHANGED <<prog, notCtl, caller, rqIn, state, receivers, body, chunk,
                   rqFile, ctlVars>>

\* the GET request; any status but a success prints and returns Ok(())
CtlGet(t) ==
    /\ prog = "request" /\ rqPc[t] = "get"
    /\ \/ CtlRaise(t, "get") /\ UNCHANGED body
       \/ LET from == IF rq[t].local_file_size > 0 /\ rqIn.ranges
                      THEN rq[t].local_file_size ELSE 0
          IN  IF rqIn.get_status /\ from < rqIn.size
              THEN /\ body' = [body EXCEPT ![t] =
                                 [src |-> from, rem |-> rqIn.size - from]]
                   /\ Goto(t, "open")
                   /\ UNCHANGED rqResult
              ELSE /\ Goto(t, "return") /\ Result(t, Ok)
                   /\ UNCHANGED body
    /\ UNCHANGED <<prog, notCtl, caller, rqIn, state, receivers, rq, chunk,
                   rqFile, ctlVars>>

\* open for append at the end, or File::create
CtlOpen(t) ==
    /\ prog = "request" /\ rqPc[t] = "open"
    /\ \/ CtlRaise(t, "file") /\ UNCHANGED <<rq, rqFile>>
       \/ /\ rqFile' = IF rq[t].local_file_size > 0 THEN rqFile
                       ELSE EmptyFile
          /\ rq' = [rq EXCEPT ![t] =
                      [Handle(rq[t], rqFile) EXCEPT
                          !.downloaded_bytes = rq[t].local_file_size]]
          /\ Goto(t, "chunk")
          /\ UNCHANGED rqResult
    /\ UNCHANGED <<prog, notCtl, caller, rqIn, state, receivers, body, chunk,
                   ctlVars>>

\* response.chunk().await?
CtlChunk(t) ==
    /\ prog = "request" /\ rqPc[t] = "chunk"
    /\ \/ body[t].rem > 0 /\ CtlRaise(t, "body") /\ UNCHANGED <<body, chunk>>
       \/ /\ body[t].rem > 0
          /\ \E n \in 1..body[t].rem :
                /\ chunk' = [chunk EXCEPT ![t] =
                               [src |-> body[t].src, len |-> n]]
                /\ body' = [body EXCEPT ![t] = [src |-> body[t].src + n,
                                                rem |-> body[t].rem - n]]
          /\ Goto(t, "check")
          /\ UNCHANGED rqResult
       \/ /\ body[t].rem = 0
          /\ Goto(t, "return") /\ Result(t, Ok)
          /\ UNCHANGED <<body, chunk>>
    /\ UNCHANGED <<prog, notCtl, caller, rqIn, state, receivers, rq, rqFile,
                   ctlVars>>

\* notifier.changed().await.unwrap() of task t: Ok at once when the
\* Receiver has not seen the latest version; else Err when the channel is
\* closed (its Sender went with the Downloader), which unwrap() turns into a
\* panic; else it waits
Changed(t) ==
    IF unseen[t]
    THEN /\ Goto(t, "write")
         /\ unseen' = [unseen EXCEPT ![t] = FALSE]
         /\ UNCHANGED rqResult
    ELSE IF caller = "dropped"
    THEN /\ Goto(t, "return") /\ Result(t, RecvError)
         /\ UNCHANGED unseen
    ELSE /\ Goto(t, "wait")
         /\ UNCHANGED <<unseen, rqResult>>

\* the checkpoint: if *notifier.borrow() == Paused, changed() is awaited
CtlCheck(t) ==
    /\ prog = "request" /\ rqPc[t] = "check"
    /\ IF state # Paused
       THEN Goto(t, "write") /\ UNCHANGED <<unseen, rqResult>>
       ELSE Changed(t)
    /\ UNCHANGED <<prog, notCtl, caller, rqIn, state, receivers, rq, body,
                   chunk, rqFile, tracer>>

\* the awaited changed() resolves: on the next send, whatever value it
\* carries, and the worker goes on to write; or when the Downloader is
\* dropped, and the worker panics
CtlWake(t) ==
    /\ prog = "request" /\ rqPc[t] = "wait"
    /\ unseen[t] \/ caller = "dropped"
    /\ Changed(t)
    /\ UNCHANGED <<prog, notCtl, caller, rqIn, state, receivers, rq, body,
                   chunk, rqFile, tracer>>

\* file.write_all(&chunk).await?, downloaded_bytes += len,
\* tracer.send(percent as u8): the write waits for the one before it and
\* returns that one's error; the tracer channel has no Receiver, so the
\* send is refused; the division panics when total_size is 0
CtlWrite(t) ==
    /\ prog = "request" /\ rqPc[t] = "write"
    /\ rq[t].plen = 0
    /\ IF rq[t].perr
       THEN /\ rq' = [rq EXCEPT ![t].perr = FALSE]
            /\ CtlRaise(t, "file")
       ELSE LET d == rq[t].downloaded_bytes + chunk[t].len
            IN  /\ rq' = [rq EXCEPT ![t] =
                            [rq[t] EXCEPT !.plen = chunk[t].len,
                                          !.psrc = chunk[t].src,
                                          !.downloaded_bytes = d]]
                /\ IF rq[t].total_size = 0
                   THEN Goto(t, "return") /\ Result(t, DivideByZero)
                   ELSE Goto(t, "chunk") /\ UNCHANGED rqResult
    /\ UNCHANGED <<prog, notCtl, caller, rqIn, state, receivers, body, chunk,
                   rqFile, ctlVars>>

\* the blocking pool runs the write in flight of task t's handle: the bytes
\* land, or the write fails after some of them
CtlCommit(t) ==
    /\ prog = "request" /\ rq[t].plen > 0
    /\ LET at == IF rq[t].append THEN rqFile.len ELSE rq[t].pos
       IN  \/ /\ rqFile' = WriteAt(rqFile, at, rq[t].psrc, rq[t].plen)
              /\ rq' = [rq EXCEPT ![t].plen = 0,
                                  ![t].pos = at + rq[t].plen]
           \/ \E p \in Prefixes(rq[t].plen) :
                /\ rqFile' = WriteAt(rqFile, at, rq[t].psrc, p)
                /\ rq' = [rq EXCEPT ![t].plen = 0, ![t].perr = TRUE,
                                    ![t].pos = at + p]
    /\ UNCHANGED <<prog, notCtl, caller, rqIn, rqPc, state, receivers, body,
                   chunk, rqResult, ctlVars>>

\* the function returns (or unwinds): its Receiver is dropped, and the file
\* without a flush
CtlReturn(t) ==
    /\ prog = "request" /\ rqPc[t] = "return"
    /\ Goto(t, "done")
    /\ receivers' = receivers - 1
    /\ UNCHANGED <<prog, notCtl, caller, rqIn, state, rq, body, chunk, rqFile,
                   rqResult, ctlVars>>

NextCtl ==
    \/ \E t \in Tasks : CtlStartDownload(t)
    \/ CtlStart
    \/ CtlPause
    \/ CtlDrop
    \/ \E t \in Tasks : CtlMetadata(t)
    \/ \E t \in Tasks : CtlHead(t)
    \/ \E t \in Tasks : CtlGet(t)
    \/ \E t \in Tasks : CtlOpen(t)
    \/ \E t \in Tasks : CtlChunk(t)
    \/ \E t \in Tasks : CtlCheck(t)
    \/ \E t \in Tasks : CtlWake(t)
    \/ \E t \in Tasks : CtlWrite(t)
    \/ \E t \in Tasks : CtlCommit(t)
    \/ \E t \in Tasks : CtlReturn(t)

(***************************************************************************)
(* Specifications                                                          *)
(***************************************************************************)
Init ==
    InitPlan \/ InitDirect(DwProbes) \/ InitStaged(SmProbes) \/ InitReq
    \/ InitCtl
Next == NextPlan \/ NextDW \/ NextSM \/ NextReq \/ NextCtl
Spec == Init /\ [][Next]_vars
\* one entry point at a time
SpecPlan == InitPlan /\ [][NextPlan]_vars
SpecDW == InitDirect(DwProbes) /\ [][NextDW]_vars
SpecSM == InitStaged(SmProbes) /\ [][NextSM]_vars
SpecReq == InitReq /\ [][NextReq]_vars
SpecCtl == InitCtl /\ [][NextCtl]_vars
\* both single-stream downloaders, req.rs and request.rs
NextSingle == NextReq \/ NextCtl
SpecSingle == (InitReq \/ InitCtl) /\ [][NextSingle]_vars

\* A download wide enough for the limit of buffer_unordered(12) to bind:
\* 1 MiB, which Downloader::new cuts into 32 chunks.  The interleavings of
\* 32 workers that all run to their end are too many to enumerate, so the
\* servers of this specification let at most MaxAnswers GETs come back and
\* leave the others without a response; every schedule of these downloads
\* is followed.  The download of one byte is there as the download that
\* ends.
WideProbes ==
    [head_ok : {TRUE}, len : {[kind |-> "digits", val |-> MB]},
     ranges : {TRUE}, honours : {TRUE}, answers : 0..MaxAnswers,
     starts : {1}, joins : {"late"}, faults : {MaxFaults},
     shorts : {Shorts}]
    \cup [head_ok : {TRUE}, len : {[kind |-> "digits", val |-> 1]},
          ranges : {TRUE}, honours : {TRUE}, answers : {Unlimited},
          starts : {1}, joins : {"any"}, faults : {MaxFaults},
          shorts : {Shorts}]
SpecLimit ==
    (InitDirect(WideProbes)
     \/ InitStaged(SmHonoured \cup SmWide))
    /\ [][NextDW \/ NextSM]_vars
\* the two orchestrators
SpecOrch ==
    (InitDirect(DwProbes) \/ InitStaged(SmHonoured))
    /\ [][NextDW \/ NextSM]_vars

(***************************************************************************)
(* Claims                                                                  *)
(***************************************************************************)
\* the workers of task d that have sent their request
Requested(d) == {i \in DOMAIN wk[d] : wk[d][i].pc # "idle"}
\* the download of task d has returned from its collect
Collected(d) ==
    tk[d] = "done" /\ dwResult[d].kind \in {"Ok", "ChunkFailure"}
\* a single download: start() has been called once, its task is task 1
Single == dl.starts = 1

\* C1: when the one direct-write download of a Downloader returns Ok against
\* a server that answers each ranged GET with the bytes of the requested
\* range, clipped at the end of the resource, the destination file is
\* total_size bytes long and byte-identical to the source, whatever the
\* chunk count and the interleaving of the workers.
C1_DirectWriteRoundTrip ==
    (prog = "dw" /\ Single /\ dwIn.honours /\ dwResult[1] = Ok) =>
        Identical(file, dl.total_size)
\* four chunks, each body received in two buffers, all succeeded
C1_Witness ==
    /\ prog = "dw" /\ Single /\ dwIn.honours /\ dwResult[1] = Ok
    /\ dl.total_chunk = 4 /\ dl.total_size = 128 * KB + 3
    /\ \A i \in DOMAIN wk[1] : wk[1][i].nb = 2
    /\ Identical(file, dl.total_size)

\* C2: for 1 <= n <= total_size, calculate_chunk_ranges(total_size, n)
\* returns n inclusive ranges in index order, each with start <= end, the
\* first starting at 0, each next one starting right after the previous
\* end, the last ending at total_size - 1: pairwise disjoint, and every byte
\* of [0, total_size) in exactly one of them.
C2_RangesTile ==
    (prog = "plan" /\ planOut # << >>) =>
        LET total == planIn[1]
            n == planIn[2]
            r == planOut
        IN  /\ Len(r) = n
            /\ r[1][1] = 0
            /\ r[n][2] = total - 1
            /\ \A k \in 1..n : r[k][1] <= r[k][2]
            /\ \A k \in 1..n - 1 : r[k + 1][1] = r[k][2] + 1
            /\ \A j, k \in 1..n : j < k => r[j][2] < r[k][1]
            /\ total <= MaxPlanSize =>
                \A b \in 0..total - 1 :
                    Cardinality({k \in 1..n : r[k][1] <= b /\ b <= r[k][2]})
                        = 1
\* the spec's scenario: 10 MiB in 4 chunks
C2_Witness ==
    /\ prog = "plan"
    /\ planIn = <<10485760, 4>>
    /\ planOut = << <<0, 2621439>>, <<2621440, 5242879>>,
                    <<5242880, 7864319>>, <<7864320, 10485759>> >>

\* C3: in the direct-write download the ranges of the workers' Range headers
\* start at 0, are contiguous, and the final chunk's requested end is
\* total_size - 1, so the requested ranges tile exactly [0, total_size).
C3_RequestedRangesTile ==
    prog = "dw" =>
        \A d \in Tasks : \A i \in Requested(d) :
            /\ wk[d][i].start <= wk[d][i].end
            /\ i = 0 => wk[d][i].start = 0
            /\ i > 0 => wk[d][i].start = wk[d][i - 1].end + 1
            /\ i = dl.total_chunk - 1 => wk[d][i].end = dl.total_size - 1

\* the sum of the lengths of the planned chunks before chunk id
RECURSIVE CumulativeOffset(_)
CumulativeOffset(id) ==
    IF id = 0 THEN 0
    ELSE CumulativeOffset(id - 1)
         + (sm.chunks[id][2] - sm.chunks[id][1] + 1)
\* the merge tasks that have opened the final file
Merging == {id \in DOMAIN mg : mg[id].pc \in {"copy", "done"}}
\* C4: in stage-and-merge the bytes of each staged chunk are copied to the
\* chunk's cumulative offset, no two chunks to the same offset, the
\* temporary files in ascending index order, and after the merge of every
\* chunk the final file is byte-identical to the source.
C4_MergeAtCumulativeOffset ==
    prog = "sm" =>
        /\ \A id \in Merging : mg[id].pos = CumulativeOffset(id)
        /\ \A i, j \in Merging : i # j => mg[i].pos # mg[j].pos
        /\ \A id \in DOMAIN mg :
            mg[id].copied > 0 =>
                \A j \in 0..id - 1 : mg[j].pc = "done" \/ mg[j].copied > 0
        /\ (sw # << >> /\ \A id \in DOMAIN mg : mg[id].pc = "done") =>
                Identical(out, sm.total_size)

\* every Fetch Worker has ended with Ok and no local file operation failed
AllFetched ==
    /\ prog = "sm" /\ sw # << >>
    /\ \A id \in DOMAIN sw : sw[id].pc = "ok"
    /\ SmFaults = 0 /\ MergeFaults = 0
\* C5: when every Fetch Worker of the stage-and-merge download ends with
\* Ok, the call returns Ok: it never stays blocked, so in every such state
\* it has returned Ok or some task can still take a step.
C5_AwaitCompletionReturns ==
    AllFetched => (smResult = Ok \/ ENABLED NextSM)

\* worker i of task d has passed every byte of its body to the destination
\* file, which holds the bytes of chunk i when the server honours Range and
\* no other download has written to the file
DwChunkWritten(d, i) ==
    /\ wk[d][i].wpos = wk[d][i].blen /\ wk[d][i].plen = 0
    /\ (dwIn.honours /\ Single) =>
            RangeIdentical(file, wk[d][i].start,
                           Min(wk[d][i].end, dl.total_size - 1))
\* the worker of chunk id of the stage-and-merge download has passed every
\* byte of its body to its temporary file, the body being the chunk's range
\* when the server honours Range
SmChunkWritten(id) ==
    /\ smIn.honours =>
            sw[id].blen = sm.chunks[id + 1][2] - sm.chunks[id + 1][1] + 1
    /\ sw[id].wpos = sw[id].blen /\ sw[id].plen = 0
\* C6: in both orchestrators a failed chunk neither cancels another chunk
\* nor keeps it from starting: a started worker can always take its next
\* step, the next planned chunk can start whenever the limit allows it, and
\* the result is decided only when the worker of every planned chunk has
\* ended, every worker that did not fail having written its bytes.
C6_NoShortCircuit ==
    /\ prog = "dw" =>
        \A d \in Tasks : \A i \in DOMAIN wk[d] :
            /\ (tk[d] = "run" /\ wk[d][i].pc \notin {"idle", "ok", "err"}
                /\ (wk[d][i].pc = "sent" => Answered < dwIn.answers))
                    => ENABLED WorkerStep(d, i)
            /\ (tk[d] = "run" /\ wk[d][i].pc = "idle"
                /\ Cardinality(InFlight(wk[d])) < DwLimit
                /\ \A j \in 0..i - 1 : wk[d][j].pc # "idle")
                    => ENABLED Request(d, i)
            /\ Collected(d) =>
                /\ Terminated(wk[d][i])
                /\ wk[d][i].pc = "ok" => DwChunkWritten(d, i)
    /\ (prog = "sm" /\ smPc = "run") =>
        \A id \in DOMAIN sw :
            /\ (sw[id].pc \notin {"idle", "ok", "err"}
                /\ (sw[id].pc = "sent" => id \in smIn.served))
                    => ENABLED SmWorkerStep(id)
            /\ (sw[id].pc = "idle"
                /\ Cardinality(InFlight(sw)) < sm.total_tasks
                /\ \A j \in 0..id - 1 : sw[j].pc # "idle")
                    => ENABLED SmRequest(id)
    /\ (prog = "sm" /\ smPc \in {"await", "done"}) =>
        \A id \in DOMAIN sw :
            /\ Terminated(sw[id])
            /\ sw[id].pc = "ok" => SmChunkWritten(id)
\* four chunks, the first to end having failed, the three others written
C6_Witness ==
    /\ prog = "dw" /\ Collected(1) /\ dwIn.honours
    /\ dl.total_chunk = 4
    /\ dwDone[1][1] # Ok
    /\ Cardinality({i \in DOMAIN wk[1] : wk[1][i].pc = "ok"}) = 3
    /\ \A i \in DOMAIN wk[1] : wk[1][i].pc = "ok" => DwChunkWritten(1, i)

\* the chunk indices a ChunkFailure message names together with the cause
Names(msg, i, cause) ==
    \E p, q \in 1..Len(msg) :
        p < q /\ msg[p] = ToString(i) /\ msg[q] = cause
\* C7: the direct-write download returns Ok exactly when no chunk failed,
\* and otherwise one ChunkFailure whose message holds, for every failed
\* chunk, that chunk's index together with its cause.
C7_AggregateNamesEveryFailure ==
    prog = "dw" =>
        \A d \in Tasks :
            Collected(d) =>
                LET failed == {i \in DOMAIN wk[d] : wk[d][i].pc = "err"}
                IN  /\ dwResult[d] = Ok <=> failed = {}
                    /\ failed # {} =>
                        /\ dwResult[d].kind = "ChunkFailure"
                        /\ \A i \in failed :
                             Names(dwResult[d].msg, i, wk[d][i].res.cause)

\* a single download: start_download has been called once at most, and
\* the worker is task 1
OneDownload == \A t \in Tasks : t > 1 => rqPc[t] = "idle"
\* the worker holds a buffer of the response that it has not yet accounted
HoldsBuffer == rqPc[1] \in {"check", "wait", "write"}
\* the bytes the worker has given to its file: those in the file and those
\* of its write in flight
Given == rqFile.len + rq[1].plen

\* C8: pause gating in req.rs, for a single download. While the state is
\* Paused, the worker that holds a buffer gives no buffer to the file and
\* downloaded_bytes does not grow, and only the caller's start() moves the
\* state out of Paused; at every return to the head of the stream loop the
\* bytes counted are the bytes given to the file, unless a write failed (no
\* loss, no double count).
C8_PauseGating ==
    [][OneDownload' =>
        /\ state.kind = "Paused" /\ HoldsBuffer =>
            /\ Given' <= Given
            /\ rq'[1].downloaded_bytes = rq[1].downloaded_bytes
            /\ state'.kind = "Paused" \/ StartCmd
        /\ (rqPc'[1] = "chunk" /\ ~rq'[1].perr) =>
                rq'[1].downloaded_bytes = Given']_vars

\* C9: terminal states are absorbing in req.rs. Once the state of a single
\* download is Finished or Error it never changes again, whatever start()
\* and pause() calls follow.
C9_TerminalAbsorbing ==
    [][(OneDownload' /\ state.kind \in {"Finished", "Error"}) =>
            state' = state]_vars

\* C10: every run of download_with_control ends with the state Finished or
\* Error: Error whenever the run stopped on a failure, Finished only when
\* the function returned Ok with the whole body received.
C10_RunEndsFinishedOrError ==
    (OneDownload /\ rqPc[1] = "done") =>
        /\ state.kind \in {"Finished", "Error"}
        /\ rqResult[1] # Ok => state.kind = "Error"
        /\ state.kind = "Finished" => rqResult[1] = Ok /\ body[1].rem = 0


\* the percent a progress read returns: Tracer::progress in direct-write
\* mode, the percent of Running in req.rs; 0 where there is none to read
Percent ==
    IF prog = "dw" /\ dl.total_size > 0
    THEN progress(counter, dl.total_size)
    ELSE IF prog = "req" /\ state.kind = "Running" THEN state.progress
    ELSE 0

\* C11: for a single download the percent read is always in 0..100, and
\* the percent the download publishes never decreases (start() is the
\* caller's own reset to 0, not a publication of the download).
C11_PercentMonotoneBounded ==
    [][OneDownload' =>
        /\ Percent' \in 0..100
        /\ ~StartCmd /\ state'.kind = state.kind => Percent' >= Percent]_vars

\* the lengths of all buffers the first n workers have passed to update
RECURSIVE SeenSum(_, _)
SeenSum(ws, n) == IF n = 0 THEN 0 ELSE ws[n - 1].seen + SeenSum(ws, n - 1)

\* the lengths of all buffers the workers of every task have passed
RECURSIVE SeenAll(_)
SeenAll(d) ==
    IF d = 0 THEN 0
    ELSE (IF wk[d] = << >> THEN 0 ELSE SeenSum(wk[d], dl.total_chunk))
         + SeenAll(d - 1)

\* C12: no lost progress update in direct-write mode. The counter is the
\* sum of the lengths of all buffers passed to Tracer::update so far, and
\* when a single download returns Ok against a server that returns exactly
\* the requested bytes the counter is total_size, progress() is 100 and
\* running() is false.
C12_NoLostUpdates ==
    prog = "dw" /\ dwPc = "ready" =>
        /\ counter = SeenAll(MaxStarts)
        /\ (Single /\ dwIn.honours /\ dwResult[1] = Ok) =>
            /\ counter = dl.total_size
            /\ progress(counter, dl.total_size) = 100
            /\ ~running(counter, dl.total_size)
\* two workers are in the middle of their bodies, each having updated
C12_Witness ==
    /\ prog = "dw"
    /\ \E i, j \in DOMAIN wk[1] :
          /\ i # j
          /\ wk[1][i].pc = "stream" /\ wk[1][i].seen > 0
          /\ wk[1][i].seen < wk[1][i].blen
          /\ wk[1][j].pc = "stream" /\ wk[1][j].seen > 0
          /\ wk[1][j].seen < wk[1][j].blen
    /\ counter > 0

\* C13: the concurrency bound. The workers that have started their chunk
\* and not finished are never more than 12 in the direct-write download and
\* never more than total_tasks in the stage-and-merge download, whose
\* counter of active workers stays within total_tasks too.
C13_ConcurrencyBound ==
    /\ prog = "dw" =>
        \A d \in Tasks : Cardinality(InFlight(wk[d])) <= DwLimit
    /\ prog = "sm" =>
        /\ Cardinality(InFlight(sw)) <= sm.total_tasks
        /\ active <= sm.total_tasks
\* the limit of the direct-write download binds: 12 workers are in flight
\* and the next chunk waits
C13_DirectAtLimit ==
    /\ prog = "dw" /\ tk[1] = "run"
    /\ Cardinality(InFlight(wk[1])) = DwLimit
    /\ \E i \in DOMAIN wk[1] : wk[1][i].pc = "ok"
    /\ \E i \in DOMAIN wk[1] : wk[1][i].pc = "idle"
\* the limit of the stage-and-merge download binds: on the host of 64 CPUs
\* one worker has ended, total_tasks = 16 workers are in flight and counted
\* by state, and the chunks left wait
C13_Witness ==
    /\ prog = "sm" /\ smPc = "run"
    /\ sm.total_tasks < sm.total_chunk
    /\ Cardinality(InFlight(sw)) = sm.total_tasks
    /\ active = sm.total_tasks
    /\ \E id \in DOMAIN sw : sw[id].pc = "ok"
    /\ \E id \in DOMAIN sw : sw[id].pc = "idle"

\* the probe was answered without a usable Content-Length: the header is
\* absent, not a number, or 0
NoLength ==
    /\ dwIn.head_ok
    /\ IF dwIn.len.kind = "digits" THEN dwIn.len.val = 0 ELSE TRUE

\* C14: Downloader::new fails with InvalidResponse whenever the probe's
\* Content-Length is absent, unparseable or 0; then there is no Downloader,
\* no destination file and no ranged GET. A Downloader that exists has
\* total_size > 0.
C14_InvalidResponse ==
    (prog = "dw" /\ dwPc # "new") =>
        /\ NoLength =>
            /\ dwPc = "failed"
            /\ built = [kind |-> "InvalidResponse"]
            /\ dl = NoDownloader /\ file = NoFile
            /\ \A d \in Tasks : tk[d] = "none" /\ wk[d] = << >>
        /\ dwPc = "ready" => built = Ok /\ dl.total_size > 0
\* new has refused a probe whose Content-Length is not a number
C14_Witness ==
    /\ prog = "dw" /\ dwPc = "failed"
    /\ dwIn.head_ok /\ dwIn.len.kind = "garbage"
    /\ built = [kind |-> "InvalidResponse"]

\* C15: without `Accept-Ranges: bytes` in the probe's response the
\* direct-write path plans exactly one chunk, and the one GET it issues has
\* the range [0, total_size - 1].
C15_SingleChunkWithoutRanges ==
    (prog = "dw" /\ ~dwIn.ranges /\ dwPc = "ready") =>
        /\ dl.total_chunk = 1
        /\ \A d \in Tasks : wk[d] # << >> =>
            /\ DOMAIN wk[d] = {0}
            /\ wk[d][0].pc # "idle" =>
                /\ wk[d][0].start = 0
                /\ wk[d][0].end = dl.total_size - 1

\* C16: temporary files in stage-and-merge mode.  When download has
\* returned Ok, or the merge task of every chunk has returned Ok (the state
\* from which it would), no temporary file exists; and a temporary file is
\* removed only by its merge task, after the worker has staged the whole
\* chunk in it and the copy has written every byte of it to the final file.
C16_TempsRemovedAfterCopy ==
    [][prog = "sm" =>
        /\ (smResult' = Ok
            \/ (mg' # << >> /\ \A id \in DOMAIN mg' : mg'[id].pc = "done"))
                => \A id \in DOMAIN temps' : ~temps'[id].exists
        /\ \A id \in DOMAIN temps :
            (temps[id].exists /\ ~temps'[id].exists) =>
                /\ sw[id].pc = "ok" /\ sw[id].plen = 0
                /\ temps[id].len = sw[id].blen
                /\ mg[id].pc = "copy"
                /\ mg[id].copied = temps[id].len
                /\ out.len >= mg[id].pos + temps[id].len]_vars
\* the chunk of a one-chunk download staged, copied and removed
C16_Witness ==
    /\ prog = "sm" /\ smPc = "await"
    /\ sm.total_chunk = 1
    /\ \A id \in DOMAIN mg : mg[id].pc = "done" /\ mg[id].copied = sw[id].blen
    /\ \A id \in DOMAIN temps : ~temps[id].exists
    /\ out.exists /\ out.len = sm.total_size

\* C17: re-check after waking in request.rs. The worker of a single
\* download leaves its checkpoint for the write only when the state it
\* finds is not Paused, and it gives no buffer to the file while the state
\* is Paused.
C17_RecheckAfterWake ==
    [][(prog = "request" /\ OneDownload') =>
        /\ (rqPc[1] \in {"check", "wait"} /\ rqPc'[1] = "write") =>
                state # Paused
        /\ rq'[1].plen > rq[1].plen => state # Paused]_vars

\* C18: no lost wake-up on resume in req.rs. A start() issued while the
\* worker is at its pause checkpoint leaves the state Running, and the
\* worker is never left waiting at the checkpoint while the state is not
\* Paused: it can always go on to write its pending buffer.
C18_ResumeWakesWorker ==
    [][(prog = "req" /\ OneDownload') =>
        /\ (StartCmd /\ rqPc[1] \in {"check", "wait"}) =>
                state'.kind = "Running"
        /\ rqPc'[1] = "wait" => state'.kind = "Paused"]_vars

\* chunk i's own byte range in the destination file
OwnFirst(i) == i * dl.chunk_size
OwnLast(i) ==
    IF i = dl.total_chunk - 1 THEN dl.total_size - 1
    ELSE (i + 1) * dl.chunk_size - 1

\* C19: disjoint writers in direct-write mode. Every step of the worker of
\* chunk i puts bytes into the destination file only at offsets of chunk
\* i's own range, so no offset is written by two workers, and the file
\* is never longer than total_size.
C19_DisjointWriters ==
    [][prog = "dw" =>
        /\ \A d \in Tasks : \A i \in DOMAIN wk[d] :
             wk'[d][i] # wk[d][i] =>
                \A e \in file'.ext \ file.ext :
                    OwnFirst(i) <= e.off /\ e.off + e.len - 1 <= OwnLast(i)
        /\ file'.len <= dl.total_size]_vars

\* the Fetch Workers that have issued their request and not yet ended
Fetching == {id \in DOMAIN sw : sw[id].pc \in {"sent", "stream"}}

\* C20: in the stage-and-merge download all Fetch Workers use one shared
\* gate, a worker holds its permit from its request until its chunk is
\* streamed and written, and no more than total_tasks workers hold a permit
\* of one gate.
C20_SharedGateHeld ==
    prog = "sm" =>
        /\ \A i, j \in DOMAIN sw :
             (sw[i].gate # -1 /\ sw[j].gate # -1) => sw[i].gate = sw[j].gate
        /\ \A id \in Fetching : sw[id].permit
        /\ \A id \in DOMAIN sw :
             Cardinality({j \in DOMAIN sw :
                            sw[j].permit /\ sw[j].gate = sw[id].gate})
                <= sm.total_tasks

\* the largest count in calculate_optimal_chunks' table
OptCeiling == 32

\* C21: calculate_optimal_chunks returns a count for every total_size > 0;
\* for a fixed CPU count the count is at least 1 and at most the table's
\* ceiling of 32, is non-decreasing in total_size, and reaches the table's
\* larger counts (8 and more) for sizes above 1 GiB.
C21_OptimalChunks ==
    LET size == get_total_size(smIn)
    IN  (prog = "sm" /\ smPc # "head" /\ smIn.head_ok
         /\ size.kind = "Ok" /\ size.val > 0) =>
            /\ smPc # "panic"
            /\ sm.total_chunk \in 1..OptCeiling
            /\ \A s \in SmSizes :
                 s <= size.val =>
                    LET n == calculate_optimal_chunks(s, smIn.num_cpus)
                    IN  n # None /\ n[1] <= sm.total_chunk
            /\ LET big == calculate_optimal_chunks(Sat, smIn.num_cpus)
               IN  big # None /\ big[1] >= 8 /\ big[1] >= sm.total_chunk
            /\ \A c \in 1..OptCap :
                 LET n == calculate_optimal_chunks(size.val, c)
                 IN  n # None /\ n[1] <= OptCeiling

\* C22: completion is observable through the running flag. Once the
\* direct-write download task has terminated, with success or with an
\* aggregated chunk error, running() is false. (After the task's end no
\* step changes the counter, so running() becomes false eventually only if
\* it is false then.)
C22_CompletionObservable ==
    (prog = "dw" /\ Single /\ Collected(1)) =>
        ~running(counter, dl.total_size)

\* C23: in the single-stream download_with_control (req.rs and
\* request.rs) the percent is never computed with total_size = 0 (the
\* division would panic): the run of a single download never ends in that
\* panic, and while total_size is 0 no body buffer of the GET is in the
\* file or on its way there.
C23_NoPercentOfZero ==
    (prog \in {"req", "request"} /\ OneDownload) =>
        /\ rqResult[1] # DivideByZero
        /\ rq[1].total_size = 0 =>
                /\ rqFile.ext = LocalFile(rqIn.local).ext
                /\ rq[1].plen = 0

\* C24: resume from an existing file of L bytes in req.rs, for a single
\* download. If L >= total_size > 0, the step that learns total_size
\* issues no GET, writes nothing and makes the state Finished. If
\* 0 < L < total_size, downloaded_bytes starts from L, every buffer lands
\* at the end of the file, and when the body has ended the bytes in the
\* file and those of the write still in flight are exactly total_size and
\* the percent is 100.
C24_ResumeFromExisting ==
    [][(prog = "req" /\ OneDownload') =>
        /\ (rqPc[1] = "head" /\ rq'[1].total_size > 0
            /\ rq[1].local_file_size >= rq'[1].total_size) =>
              rqPc'[1] = "return" /\ state' = Finished /\ rqFile' = rqFile
        /\ (0 < rq[1].local_file_size
            /\ rq[1].local_file_size < rq[1].total_size) =>
              /\ (rqPc[1] = "open" /\ rqPc'[1] = "chunk") =>
                    rq'[1].downloaded_bytes = rq[1].local_file_size
              /\ rqFile' # rqFile =>
                    rqFile' = WriteAt(rqFile, rqFile.len, rq[1].psrc,
                                      rq[1].plen)
              /\ (rqPc[1] = "chunk" /\ rqPc'[1] = "return"
                  /\ rqResult'[1] = Ok) =>
                    /\ Given = rq[1].total_size
                    /\ (rq[1].downloaded_bytes * 100)
                            \div rq[1].total_size = 100
      ]_vars

=============================================================================
